---- MODULE Spec2Model ----
(***************************************************************************)
(* A model of the light-novel document parser (src/src/ln_parser.py).       *)
(* Strings are sequences of one-character strings, so that the regular     *)
(* expressions, case folding and numeral parsing of the code are computed  *)
(* character by character.  An optional value (Python's None or a value)   *)
(* is a sequence of length 0 or 1.                                         *)
(***************************************************************************)
EXTENDS Integers, Sequences, FiniteSets, TLC

VARIABLES
    file_path,      \* the path handed to LightNovelParser(file_path)
    path_exists,    \* whether that path exists on disk
    file,           \* the document stored behind the path
    libs,           \* which optional libraries imported: [epub, fitz]
    pc,             \* position of the caller: "new", "ready", "pdf_loop", "failed"
    format,         \* parser.format: None or a FileFormat value
    content,        \* parser.content: None or a string
    chapters,       \* parser.chapters
    images,         \* parser.images
    raised,         \* the exception the last call raised, None if it returned
    ret,            \* what the last call returned
    nparse,         \* how many parse() calls have been started
    page_num,       \* locals of _parse_pdf, live while pc = "pdf_loop"
    chapter_num,
    current_chapter_text,
    current_chapter_images,
    image_counter,
    full_text,
    fn_args,        \* input of a helper called on its own
    fn_ret,         \* its result
    argv,           \* the command line of a script: its options
    environ,        \* what a script finds around it: os.environ, its libraries, its disk
    config,         \* hello's AppConfig, None before it is built
    stdout,         \* the lines a script has printed
    test_files,     \* the files under test_files/
    exit_code       \* None while a script runs, then its exit status

procVars   == <<argv, environ, config, stdout, test_files, exit_code>>
fileVars   == <<file_path, path_exists, file, libs>>
parserVars == <<format, content, chapters, images>>
pdfVars    == <<page_num, chapter_num, current_chapter_text,
                current_chapter_images, image_counter, full_text>>
fnVars     == <<fn_args, fn_ret>>
vars       == <<procVars, fileVars, parserVars, pdfVars, fnVars, pc, raised, ret, nparse>>

None == <<>>
Some(x) == <<x>>
IsNone(o) == Len(o) = 0
The(o) == o[1]

----------------------------------------------------------------------------
(* Characters and strings *)

UpperAlpha == <<"A", "B", "C", "D", "E", "F", "G", "H", "I", "J", "K", "L", "M",
                "N", "O", "P", "Q", "R", "S", "T", "U", "V", "W", "X", "Y", "Z">>
LowerAlpha == <<"a", "b", "c", "d", "e", "f", "g", "h", "i", "j", "k", "l", "m",
                "n", "o", "p", "q", "r", "s", "t", "u", "v", "w", "x", "y", "z">>
DigitChars == <<"0", "1", "2", "3", "4", "5", "6", "7", "8", "9">>

Range(s) == {s[i] : i \in 1..Len(s)}
UpperSet == Range(UpperAlpha)
LowerSet == Range(LowerAlpha)
DigitSet == Range(DigitChars)

IndexOf(c, s) == CHOOSE i \in 1..Len(s) : s[i] = c

\* str.lower() and str.upper() on one character
lower_char(c) == IF c \in UpperSet THEN LowerAlpha[IndexOf(c, UpperAlpha)] ELSE c
upper_char(c) == IF c \in LowerSet THEN UpperAlpha[IndexOf(c, LowerAlpha)] ELSE c
lower(s) == [i \in 1..Len(s) |-> lower_char(s[i])]
upper(s) == [i \in 1..Len(s) |-> upper_char(s[i])]

\* the regular-expression classes \d, \s, \w and the class [\s:.\-]
SpaceSet == {" ", "\n", "\t"}
WordSet  == UpperSet \cup LowerSet \cup DigitSet \cup {"_"}
SepSet   == SpaceSet \cup {":", ".", "-"}
IsDigit(c) == c \in DigitSet
IsSpace(c) == c \in SpaceSet
IsWord(c)  == c \in WordSet

DigitVal(c) == IndexOf(c, DigitChars) - 1

\* s[a:b] of Python, 0-based and half open, for 0 <= a <= b <= len(s)
Slice(s, a, b) == SubSeq(s, a + 1, b)

\* whether s holds w at 0-based offset i
StartsAt(s, w, i) ==
    /\ i + Len(w) <= Len(s)
    /\ \A k \in 1..Len(w) : s[i + k] = w[k]

\* w in s
Contains(s, w) == \E i \in 0..(Len(s) - Len(w)) : StartsAt(s, w, i)

\* str.rfind(c): the last 0-based offset of c in s, -1 if none
rfind(s, c) ==
    IF \E i \in 1..Len(s) : s[i] = c
    THEN (CHOOSE i \in 1..Len(s) : s[i] = c /\ \A j \in (i + 1)..Len(s) : s[j] # c) - 1
    ELSE -1

\* str.strip(): leading and trailing whitespace removed
strip(s) ==
    IF \A i \in 1..Len(s) : IsSpace(s[i]) THEN <<>>
    ELSE LET a == CHOOSE i \in 1..Len(s) :
                      ~IsSpace(s[i]) /\ \A j \in 1..(i - 1) : IsSpace(s[j])
             b == CHOOSE i \in 1..Len(s) :
                      ~IsSpace(s[i]) /\ \A j \in (i + 1)..Len(s) : IsSpace(s[j])
         IN  SubSeq(s, a, b)

\* int(s) for a string of decimal digits
RECURSIVE DecimalValue(_)
DecimalValue(s) ==
    IF s = <<>> THEN 0
    ELSE 10 * DecimalValue(SubSeq(s, 1, Len(s) - 1)) + DigitVal(s[Len(s)])

----------------------------------------------------------------------------
(* FileFormat and format detection *)

TXT  == <<"t", "x", "t">>
EPUB == <<"e", "p", "u", "b">>
PDF  == <<"p", "d", "f">>
FileFormat == {TXT, EPUB, PDF}

\* PurePath.name: the final component of the path
PathName(p) == Slice(p, rfind(p, "/") + 1, Len(p))

\* PurePath.suffix: the name from its last dot on, unless that dot starts or
\* ends the name
suffix(p) ==
    LET name == PathName(p)
        i == rfind(name, ".")
    IN  IF 0 < i /\ i < Len(name) - 1 THEN Slice(name, i, Len(name)) ELSE <<>>

\* str.lstrip('.')
RECURSIVE lstrip_dot(_)
lstrip_dot(s) == IF s # <<>> /\ s[1] = "." THEN lstrip_dot(Tail(s)) ELSE s

\* detect_ext with the lower-casing left out
detect_ext_case_kept(p) == lstrip_dot(suffix(p))

\* the extension _detect_format looks up in FileFormat
detect_ext(p) == lstrip_dot(lower(suffix(p)))

\* the exceptions: the type and what the message names
FileNotFoundError == [type |-> "FileNotFoundError", detail |-> <<>>]
ValueError(ext)   == [type |-> "ValueError", detail |-> ext]
ImportError(lib)  == [type |-> "ImportError", detail |-> lib]

\* _detect_format: the FileFormat member, or the ValueError naming the extension
_detect_format(p) ==
    LET ext == detect_ext(p)
    IN  IF ext \in FileFormat THEN [ok |-> TRUE, value |-> ext, error |-> None]
        ELSE [ok |-> FALSE, value |-> <<>>, error |-> Some(ValueError(ext))]

\* __init__ with the format detected before the existence check
init_outcome_format_first(p, exists) ==
    IF ~_detect_format(p).ok THEN _detect_format(p)
    ELSE IF ~exists THEN [ok |-> FALSE, value |-> <<>>, error |-> Some(FileNotFoundError)]
    ELSE _detect_format(p)

\* LightNovelParser.__init__, as the outcome of the call
init_outcome(p, exists) ==
    IF ~exists THEN [ok |-> FALSE, value |-> <<>>, error |-> Some(FileNotFoundError)]
    ELSE _detect_format(p)

----------------------------------------------------------------------------
(* Chapter detection in plain text: the three patterns of                  *)
(* _detect_chapters_in_text, matched as re.finditer matches them under     *)
(* re.MULTILINE | re.IGNORECASE.  Offsets are 0-based as in Python.         *)

PrologueWords == {<<"p", "r", "o", "l", "o", "g", "u", "e">>,
                  <<"i", "n", "t", "r", "o", "d", "u", "c", "t", "i", "o", "n">>}
ChapterWords  == {<<"c", "h", "a", "p", "t", "e", "r">>,
                  <<"c", "h", ".">>}
ExtraWords    == {<<"e", "x", "t", "r", "a">>,
                  <<"e", "p", "i", "l", "o", "g", "u", "e">>,
                  <<"a", "f", "t", "e", "r", "w", "o", "r", "d">>,
                  <<"b", "o", "n", "u", "s">>}
\* [IVXLCDM] under re.IGNORECASE
RomanSet == {"I", "V", "X", "L", "C", "D", "M", "i", "v", "x", "l", "c", "d", "m"}

\* the keyword alternatives of a pattern, by the pattern's tag
PatternWords(chapter_type) ==
    CASE chapter_type = "prologue" -> PrologueWords
      [] chapter_type = "chapter"  -> ChapterWords
      [] chapter_type = "extra"    -> ExtraWords

\* whether text holds keyword w (given in lower case) at offset i, case ignored
StartsAtNoCase(text, w, i) ==
    /\ i + Len(w) <= Len(text)
    /\ \A k \in 1..Len(w) : lower_char(text[i + k]) = w[k]

\* the greatest and the least element of a set of integers, d if it is empty
MaxOr(S, d) == IF S = {} THEN d ELSE CHOOSE x \in S : \A y \in S : y <= x
MinOr(S, d) == IF S = {} THEN d ELSE CHOOSE x \in S : \A y \in S : x <= y

\* the end of the longest run of characters of a class that starts at offset q
RunEnd(text, q, class) ==
    MinOr({e \in q..Len(text) : e = Len(text) \/ text[e + 1] \notin class}, q)

\* where (.+?)(?=\n|$) ends once its dot has taken the character before
\* offset e: the end of that line
LineEnd(text, e) ==
    MinOr({x \in e..Len(text) : x = Len(text) \/ text[x + 1] = "\n"}, e)

\* (.+?)(?=\n|$) with its first character at offset j; -1 if there is none
DotToLineEnd(text, j) == IF j = -1 THEN -1 ELSE LineEnd(text, j + 1)

\* [\s:.\-]{min_sep,} (greedy) then (.+?)(?=\n|$), from offset q: the separator
\* run gives back characters until one that is not a newline is left for the
\* dot.  The end offset of the match, or -1.
TailEnd(text, q, min_sep) ==
    DotToLineEnd(text,
                 MaxOr({j \in (q + min_sep)..RunEnd(text, q, SepSet) :
                           j < Len(text) /\ text[j + 1] # "\n"}, -1))

NoMatch == [ok |-> FALSE, start |-> 0, end |-> 0, num_str |-> <<>>]
Match(s, e, num_str) ==
    IF e = -1 THEN NoMatch ELSE [ok |-> TRUE, start |-> s, end |-> e, num_str |-> num_str]

\* the longest numeral (\d+|[IVXLCDM]+) that starts at offset w
NumeralRunEnd(text, w) ==
    RunEnd(text, w, IF w < Len(text) /\ IsDigit(text[w + 1]) THEN DigitSet ELSE RomanSet)

\* the match whose numeral is text[w:q]; -1 stands for no numeral
NumeralMatch(text, s, w, q) ==
    IF q = -1 THEN NoMatch ELSE Match(s, TailEnd(text, q, 0), Slice(text, w, q))

\* the numeral group of the chapter pattern from offset w, then the tail: the
\* numeral is as long as the tail allows
NumeralAndTail(text, s, w) ==
    NumeralMatch(text, s, w,
                 MaxOr({q \in (w + 1)..NumeralRunEnd(text, w) : DotToLineEnd(text,
                           MaxOr({j \in q..RunEnd(text, q, SepSet) :
                                     j < Len(text) /\ text[j + 1] # "\n"}, -1)) # -1}, -1))

\* the offset after the pattern's keyword at offset k0 (case ignored), or -1
WordEnd(text, k0, chapter_type) ==
    MaxOr({k0 + Len(w) : w \in {v \in PatternWords(chapter_type) :
                                   StartsAtNoCase(text, v, k0)}}, -1)

\* the pattern after its keyword, which ends at offset k, for a match that
\* starts at offset s
MatchAfterWord(text, s, chapter_type, k) ==
    IF k = -1 THEN NoMatch
    ELSE IF chapter_type = "chapter"
         THEN NumeralAndTail(text, s, RunEnd(text, k, SpaceSet))
         ELSE Match(s, TailEnd(text, k, IF chapter_type = "prologue" THEN 1 ELSE 0), <<>>)

\* the pattern after its (?:^|\n) prefix: keyword at offset k0 of a match that
\* starts at offset s
MatchBody(text, s, k0, chapter_type) ==
    MatchAfterWord(text, s, chapter_type, WordEnd(text, k0, chapter_type))

FirstOk(a, b) == IF a.ok THEN a ELSE b

\* a match of the pattern that starts exactly at offset s: (?:^|\n) tries the
\* line start first and then a newline to consume
MatchAt(text, s, chapter_type) ==
    FirstOk(IF s = 0 \/ text[s] = "\n" THEN MatchBody(text, s, s, chapter_type)
            ELSE NoMatch,
            IF s < Len(text) /\ text[s + 1] = "\n" THEN MatchBody(text, s, s + 1, chapter_type)
            ELSE NoMatch)

\* re.finditer(pattern, text): the leftmost match from pos on, then on from
\* the end of that match
RECURSIVE finditer(_, _, _)
EmitMatch(text, chapter_type, m) ==
    <<[start |-> m.start, end |-> m.end, num_str |-> m.num_str,
       chapter_type |-> chapter_type]>>
    \o finditer(text, IF m.end > m.start THEN m.end ELSE m.start + 1, chapter_type)

FromStart(text, chapter_type, s) ==
    IF s = -1 THEN <<>> ELSE EmitMatch(text, chapter_type, MatchAt(text, s, chapter_type))

finditer(text, pos, chapter_type) ==
    FromStart(text, chapter_type,
              MinOr({s \in pos..Len(text) : MatchAt(text, s, chapter_type).ok}, -1))

\* list.sort(key=...): stable, ascending by key; keys[i] is the key of s[i]
RECURSIVE SortByKey(_, _)
SortByKey(s, keys) ==
    IF s = <<>> THEN <<>>
    ELSE LET n == Len(s)
             \* the first position holding the least key comes first
             i == CHOOSE x \in 1..n :
                      /\ \A y \in 1..n : keys[x] <= keys[y]
                      /\ \A y \in 1..(x - 1) : keys[y] # keys[x]
             Drop(q) == SubSeq(q, 1, i - 1) \o SubSeq(q, i + 1, n)
         IN  <<s[i]>> \o SortByKey(Drop(s), Drop(keys))

\* all_matches before the sort: every match of every pattern, pattern by pattern
collect_matches(text) ==
    finditer(text, 0, "prologue") \o finditer(text, 0, "chapter")
        \o finditer(text, 0, "extra")

\* the sort left out: the matches stay pattern by pattern
sort_matches_left_out(all_matches) == all_matches

\* all_matches.sort(key=lambda m: m[0].start())
sort_matches(all_matches) ==
    SortByKey(all_matches, [i \in 1..Len(all_matches) |-> all_matches[i].start])

----------------------------------------------------------------------------
(* The numeral and title helpers *)

\* whether int(s) succeeds: optional surrounding whitespace, an optional
\* sign, then digits that single underscores may separate
int_ok(s) ==
    LET t == strip(s)
        b == IF t # <<>> /\ t[1] \in {"+", "-"} THEN Tail(t) ELSE t
    IN  /\ b # <<>>
        /\ \A i \in 1..Len(b) : IsDigit(b[i]) \/ b[i] = "_"
        /\ IsDigit(b[1]) /\ IsDigit(b[Len(b)])
        /\ \A i \in 1..(Len(b) - 1) : ~(b[i] = "_" /\ b[i + 1] = "_")

\* int(s) when it succeeds
int_value(s) ==
    LET t == strip(s)
        neg == t[1] = "-"
        b == IF t[1] \in {"+", "-"} THEN Tail(t) ELSE t
        digits == SelectSeq(b, IsDigit)
    IN  IF neg THEN 0 - DecimalValue(digits) ELSE DecimalValue(digits)

\* roman_map.get(char, 0)
roman_map(char) ==
    CASE char = "I" -> 1
      [] char = "V" -> 5
      [] char = "X" -> 10
      [] char = "L" -> 50
      [] char = "C" -> 100
      [] char = "D" -> 500
      [] char = "M" -> 1000
      [] OTHER -> 0

\* the loop adding every symbol's value, whatever stands to its right
RECURSIVE roman_loop_adding_only(_, _, _, _)
roman_loop_adding_only(s, i, num, prev_value) ==
    IF i = 0 THEN num
    ELSE roman_loop_adding_only(s, i - 1, num + roman_map(s[i]), roman_map(s[i]))

\* the loop over reversed(num_str.upper()): i is the position still to read
RECURSIVE roman_loop(_, _, _, _)
roman_loop(s, i, num, prev_value) ==
    IF i = 0 THEN num
    ELSE LET value == roman_map(s[i])
         IN  roman_loop(s, i - 1,
                        IF value < prev_value THEN num - value ELSE num + value,
                        value)

\* _parse_chapter_number
_parse_chapter_number(num_str) ==
    IF int_ok(num_str) THEN int_value(num_str)
    ELSE LET num == roman_loop(upper(num_str), Len(num_str), 0, 0)
         IN  IF num > 0 THEN num ELSE 1

PrologueTitleWords == {<<"p", "r", "o", "l", "o", "g", "u", "e">>,
                       <<"p", "r", "o", "l", "o", "g">>,
                       <<"i", "n", "t", "r", "o", "d", "u", "c", "t", "i", "o", "n">>}
ExtraTitleWords    == {<<"e", "x", "t", "r", "a">>,
                       <<"e", "p", "i", "l", "o", "g", "u", "e">>,
                       <<"a", "f", "t", "e", "r", "w", "o", "r", "d">>,
                       <<"b", "o", "n", "u", "s">>}
ChapterToken == <<"c", "h", "a", "p", "t", "e", "r">>
ChToken      == <<"c", "h">>

\* re.search(r'(?:chapter|ch\.?)\s*(\d+)', t): the offsets where the pattern
\* matches, each with the offset its digits start at
ChapterTokenDigits(t, i) ==
    LET after_chapter == RunEnd(t, i + Len(ChapterToken), SpaceSet)
        k == IF StartsAt(t, <<".">>, i + Len(ChToken)) THEN i + Len(ChToken) + 1
             ELSE i + Len(ChToken)
        after_ch == RunEnd(t, k, SpaceSet)
    IN  IF /\ StartsAt(t, ChapterToken, i)
           /\ after_chapter < Len(t) /\ IsDigit(t[after_chapter + 1])
        THEN after_chapter
        ELSE IF /\ StartsAt(t, ChToken, i)
                /\ after_ch < Len(t) /\ IsDigit(t[after_ch + 1])
        THEN after_ch
        ELSE -1

\* any run of digits taken for a standalone number, word characters around it
\* or not
StandaloneStarts_without_word_boundary(t) ==
    {i \in 0..(Len(t) - 1) : IsDigit(t[i + 1])}

\* re.search(r'\b(\d+)\b', t): the offsets where a run of digits starts that
\* has no word character on either side
StandaloneStarts(t) ==
    {i \in 0..(Len(t) - 1) :
        /\ IsDigit(t[i + 1])
        /\ (i = 0 \/ ~IsWord(t[i]))
        /\ LET m == RunEnd(t, i, DigitSet) IN m = Len(t) \/ ~IsWord(t[m + 1])}

\* the detector that looks for the extra words before the prologue words
_detect_chapter_number_extra_first(title, default) ==
    LET title_lower == lower(title)
        token_at == {i \in 0..(Len(title_lower) - 1) : ChapterTokenDigits(title_lower, i) # -1}
        standalone == StandaloneStarts(title)
    IN  IF \E word \in ExtraTitleWords : Contains(title_lower, word) THEN -1
        ELSE IF \E word \in PrologueTitleWords : Contains(title_lower, word) THEN 0
        ELSE IF token_at # {}
             THEN LET d == ChapterTokenDigits(title_lower, MinOr(token_at, -1))
                  IN  DecimalValue(Slice(title_lower, d, RunEnd(title_lower, d, DigitSet)))
        ELSE IF standalone # {}
             THEN LET d == MinOr(standalone, -1)
                  IN  DecimalValue(Slice(title, d, RunEnd(title, d, DigitSet)))
        ELSE default

\* _detect_chapter_number
_detect_chapter_number(title, default) ==
    LET title_lower == lower(title)
        token_at == {i \in 0..(Len(title_lower) - 1) : ChapterTokenDigits(title_lower, i) # -1}
        standalone == StandaloneStarts(title)
    IN  IF \E word \in PrologueTitleWords : Contains(title_lower, word) THEN 0
        ELSE IF \E word \in ExtraTitleWords : Contains(title_lower, word) THEN -1
        ELSE IF token_at # {}
             THEN LET d == ChapterTokenDigits(title_lower, MinOr(token_at, -1))
                  IN  DecimalValue(Slice(title_lower, d, RunEnd(title_lower, d, DigitSet)))
        ELSE IF standalone # {}
             THEN LET d == MinOr(standalone, -1)
                  IN  DecimalValue(Slice(title, d, RunEnd(title, d, DigitSet)))
        ELSE default

BoundaryChapter   == <<"C", "h", "a", "p", "t", "e", "r">>
BoundaryCHAPTER   == <<"C", "H", "A", "P", "T", "E", "R">>
BoundaryCh        == <<"C", "h", ".">>

\* _is_chapter_boundary: the three patterns, searched without flags, so a
\* marker starts the text or follows a newline, and case matters
_is_chapter_boundary(text) ==
    \E p \in 0..Len(text) :
        /\ p = 0 \/ text[p] = "\n"
        /\ \/ \E word \in {BoundaryChapter, BoundaryCHAPTER} :
                 /\ StartsAt(text, word, p)
                 /\ LET w == RunEnd(text, p + Len(word), SpaceSet)
                    IN  w > p + Len(word) /\ w < Len(text) /\ IsDigit(text[w + 1])
           \/ /\ StartsAt(text, BoundaryCh, p)
              /\ LET w == RunEnd(text, p + Len(BoundaryCh), SpaceSet)
                 IN  w < Len(text) /\ IsDigit(text[w + 1])

\* str.split('\n')
RECURSIVE split_lines(_)
split_lines(s) ==
    IF \A i \in 1..Len(s) : s[i] # "\n" THEN <<s>>
    ELSE LET i == CHOOSE x \in 1..Len(s) : s[x] = "\n" /\ \A y \in 1..(x - 1) : s[y] # "\n"
         IN  <<SubSeq(s, 1, i - 1)>> \o split_lines(SubSeq(s, i + 1, Len(s)))

TitleLimit == 100
UntitledChapter == <<"U", "n", "t", "i", "t", "l", "e", "d", " ", "C", "h", "a", "p", "t", "e", "r">>

\* _extract_title_from_text
_extract_title_from_text(text) ==
    LET lines == split_lines(strip(text))
        filled == {i \in 1..Len(lines) : strip(lines[i]) # <<>>}
    IN  IF filled = {} THEN UntitledChapter
        ELSE LET line == strip(lines[MinOr(filled, 0)])
             IN  SubSeq(line, 1, IF Len(line) < TitleLimit THEN Len(line) ELSE TitleLimit)

----------------------------------------------------------------------------
(* The data model *)

\* Chapter(number, title, content, images)
Chapter(number, title, chapter_content, chapter_images) ==
    [number |-> number, title |-> title, content |-> chapter_content,
     images |-> chapter_images]

\* ImageData(chapter_num, image_num, data, mime_type)
ImageData(ch_num, image_num, data, mime_type) ==
    [chapter_num |-> ch_num, image_num |-> image_num, data |-> data,
     mime_type |-> mime_type]

\* base64.b64encode(raw).decode('utf-8'), the bytes kept abstract
b64encode(raw) == [b64 |-> raw]

\* the number a text marker gets, by the tag of its pattern
marker_number(m) ==
    CASE m.chapter_type = "prologue" -> 0
      [] m.chapter_type = "extra"    -> -1
      [] OTHER                       -> _parse_chapter_number(m.num_str)

\* the loop of _detect_chapters_in_text over the sorted matches
chapters_of_matches(text, all_matches) ==
    [i \in 1..Len(all_matches) |->
        Chapter(marker_number(all_matches[i]),
                strip(Slice(text, all_matches[i].start, all_matches[i].end)),
                strip(Slice(text, all_matches[i].start,
                            IF i + 1 <= Len(all_matches) THEN all_matches[i + 1].start
                            ELSE Len(text))),
                <<>>)]

\* _detect_chapters_in_text: the chapters it appends to self.chapters
_detect_chapters_in_text(text) ==
    chapters_of_matches(text, sort_matches(collect_matches(text)))

----------------------------------------------------------------------------
(* String building *)

\* str(n) for n >= 0
RECURSIVE str_int(_)
str_int(n) ==
    IF n < 10 THEN <<DigitChars[n + 1]>>
    ELSE str_int(n \div 10) \o <<DigitChars[(n % 10) + 1]>>

\* sep.join(parts)
RECURSIVE join(_, _)
join(sep, parts) ==
    IF parts = <<>> THEN <<>>
    ELSE IF Len(parts) = 1 THEN parts[1]
    ELSE parts[1] \o sep \o join(sep, Tail(parts))

\* the concatenation of a sequence of sequences
RECURSIVE Flatten(_)
Flatten(ss) == IF ss = <<>> THEN <<>> ELSE ss[1] \o Flatten(Tail(ss))

NL == <<"\n">>
NLNL == <<"\n", "\n">>

----------------------------------------------------------------------------
(* EPUB: the container as ebooklib hands it over.  An item is a document   *)
(* (the first h1/h2/h3 text if any, the src of each img in document order, *)
(* the visible text) or an image (its name, bytes and media type).         *)

DocumentItem(title, imgs, text) ==
    [type |-> "ITEM_DOCUMENT", title |-> title, imgs |-> imgs, text |-> text,
     name |-> <<>>, raw |-> 0, media_type |-> <<>>]
ImageItem(name, raw, media_type) ==
    [type |-> "ITEM_IMAGE", title |-> None, imgs |-> <<>>, text |-> <<>>,
     name |-> name, raw |-> raw, media_type |-> media_type]
NavigationItem ==
    [type |-> "ITEM_NAVIGATION", title |-> None, imgs |-> <<>>, text |-> <<>>,
     name |-> <<>>, raw |-> 0, media_type |-> <<>>]

IsDocument(item) == item.type = "ITEM_DOCUMENT"
IsImage(item) == item.type = "ITEM_IMAGE"

\* book.get_items_of_type(ebooklib.ITEM_IMAGE)
get_items_of_type_image(items) == SelectSeq(items, IsImage)

\* the container images one img tag resolves to: none without a src, else
\* every image item whose name holds the src, in container order
resolve_img(img_src, image_items) ==
    IF img_src = <<>> THEN <<>>
    ELSE LET Holds(book_item) == Contains(book_item.name, img_src)
         IN  SelectSeq(image_items, Holds)

\* a counter that forgets what it counted for the chapter
counter_get_forgetting(counter, key) == 0

\* image_counter.get(chapter_num, 0)
counter_get(counter, key) == IF key \in DOMAIN counter THEN counter[key] ELSE 0

\* the ImageData records of the first img of one EPUB document only
epub_chapter_images_first_img_only(doc, ch_num, counter, image_items) ==
    LET found == IF doc.imgs = <<>> THEN <<>> ELSE resolve_img(doc.imgs[1], image_items)
    IN  [j \in 1..Len(found) |->
            ImageData(ch_num, counter_get(counter, ch_num) + j,
                      b64encode(found[j].raw), found[j].media_type)]

\* the ImageData records of one EPUB document, numbered on from the counter
epub_chapter_images(doc, ch_num, counter, image_items) ==
    LET found == Flatten([i \in 1..Len(doc.imgs) |-> resolve_img(doc.imgs[i], image_items)])
        base == counter_get(counter, ch_num)
    IN  [j \in 1..Len(found) |->
            ImageData(ch_num, base + j, b64encode(found[j].raw), found[j].media_type)]

ChapterPrefix == <<"C", "h", "a", "p", "t", "e", "r", " ">>

\* the title of an EPUB document: the heading text, else "Chapter {chapter_num}"
epub_title(doc, ch_num) ==
    IF IsNone(doc.title) THEN ChapterPrefix \o str_int(ch_num) ELSE The(doc.title)

\* the loop of _parse_epub over book.get_items(), from item i on; st holds
\* chapter_num, image_counter and what was appended so far
RECURSIVE epub_loop(_, _, _)
epub_loop(items, i, st) ==
    IF i > Len(items) THEN st
    ELSE IF ~IsDocument(items[i]) THEN epub_loop(items, i + 1, st)
    ELSE LET doc == items[i]
             chapter_images == epub_chapter_images(doc, st.chapter_num, st.image_counter,
                                                   get_items_of_type_image(items))
             title_text == epub_title(doc, st.chapter_num)
             detected_num == _detect_chapter_number(title_text, st.chapter_num)
             chapter == Chapter(detected_num, title_text, doc.text, chapter_images)
             counted == IF chapter_images = <<>> THEN st.image_counter
                        ELSE [k \in DOMAIN st.image_counter \cup {st.chapter_num} |->
                                 IF k = st.chapter_num
                                 THEN counter_get(st.image_counter, k) + Len(chapter_images)
                                 ELSE st.image_counter[k]]
         IN  epub_loop(items, i + 1,
                       [chapter_num |-> st.chapter_num + 1,
                        image_counter |-> counted,
                        chapters |-> Append(st.chapters, chapter),
                        images |-> st.images \o chapter_images])

\* a sort by number that turns the chapters of one number around
sort_chapters_ties_reversed(chs) ==
    SortByKey([i \in 1..Len(chs) |-> chs[Len(chs) + 1 - i]],
              [i \in 1..Len(chs) |-> chs[Len(chs) + 1 - i].number])

\* self.chapters.sort(key=lambda x: x.number)
sort_chapters(chs) == SortByKey(chs, [i \in 1..Len(chs) |-> chs[i].number])

\* "\n\n".join(f"{ch.title}\n\n{ch.content}" for ch in self.chapters)
epub_content(chs) ==
    join(NLNL, [i \in 1..Len(chs) |-> chs[i].title \o NLNL \o chs[i].content])

\* _parse_epub that starts from empty lists whatever the instance holds
_parse_epub_from_scratch(book, old_chapters, old_images) ==
    LET st == epub_loop(book.items, 1,
                        [chapter_num |-> 1, image_counter |-> <<>>,
                         chapters |-> <<>>, images |-> <<>>])
    IN  [chapters |-> sort_chapters(st.chapters), images |-> st.images,
         content |-> epub_content(sort_chapters(st.chapters))]

\* _parse_epub past the import check: the new chapters, images and content
_parse_epub(book, old_chapters, old_images) ==
    LET st == epub_loop(book.items, 1,
                        [chapter_num |-> 1, image_counter |-> <<>>,
                         chapters |-> old_chapters, images |-> old_images])
        sorted == sort_chapters(st.chapters)
    IN  [chapters |-> sorted, images |-> st.images, content |-> epub_content(sorted)]

----------------------------------------------------------------------------
(* PDF: a page is its text and its embedded images (bytes and extension)   *)

ImagePrefix == <<"i", "m", "a", "g", "e", "/">>

\* the ImageData records of one PDF page, numbered from 0 on
pdf_page_images_numbered_from_zero(page, ch_num, counter) ==
    [j \in 1..Len(page.images) |->
        ImageData(ch_num, counter_get(counter, ch_num) + j - 1,
                  b64encode(page.images[j].raw), ImagePrefix \o page.images[j].ext)]

\* the ImageData records of one PDF page, numbered on from the counter
pdf_page_images(page, ch_num, counter) ==
    LET base == counter_get(counter, ch_num)
    IN  [j \in 1..Len(page.images) |->
            ImageData(ch_num, base + j, b64encode(page.images[j].raw),
                      ImagePrefix \o page.images[j].ext)]

\* the chapter closed out of the buffered page texts, its images left behind
pdf_chapter_without_images(texts, imgs, ch_num) ==
    Chapter(_detect_chapter_number(_extract_title_from_text(join(NL, texts)), ch_num),
            _extract_title_from_text(join(NL, texts)), join(NL, texts), <<>>)

\* the chapter closed out of the buffered page texts
pdf_chapter(texts, imgs, ch_num) ==
    LET chapter_content == join(NL, texts)
        title == _extract_title_from_text(chapter_content)
    IN  Chapter(_detect_chapter_number(title, ch_num), title, chapter_content, imgs)

----------------------------------------------------------------------------
(* One step of the page loop of _parse_pdf, on the record st of its locals *)
(* and of the two lists it appends to                                      *)

pdf_page_marker_opens_chapter(page, st) ==
    LET new_images == pdf_page_images(page, st.chapter_num, st.image_counter)
        counted == IF new_images = <<>> THEN st.image_counter
                   ELSE [k \in DOMAIN st.image_counter \cup {st.chapter_num} |->
                            IF k = st.chapter_num
                            THEN counter_get(st.image_counter, k) + Len(new_images)
                            ELSE st.image_counter[k]]
        closes == _is_chapter_boundary(page.text) /\ st.current_chapter_text # <<>>
    IN  [chapter_num |-> IF closes THEN st.chapter_num + 1 ELSE st.chapter_num,
         current_chapter_text |-> IF closes THEN <<page.text>>
                                  ELSE Append(st.current_chapter_text, page.text),
         current_chapter_images |-> IF closes THEN new_images
                                    ELSE st.current_chapter_images \o new_images,
         image_counter |-> counted,
         full_text |-> Append(st.full_text, page.text),
         chapters |-> IF closes
                      THEN Append(st.chapters,
                                  pdf_chapter(st.current_chapter_text,
                                              st.current_chapter_images, st.chapter_num))
                      ELSE st.chapters,
         images |-> st.images \o new_images]

pdf_page(page, st) ==
    LET new_images == pdf_page_images(page, st.chapter_num, st.image_counter)
        counted == IF new_images = <<>> THEN st.image_counter
                   ELSE [k \in DOMAIN st.image_counter \cup {st.chapter_num} |->
                            IF k = st.chapter_num
                            THEN counter_get(st.image_counter, k) + Len(new_images)
                            ELSE st.image_counter[k]]
        text_buffer == Append(st.current_chapter_text, page.text)
        image_buffer == st.current_chapter_images \o new_images
    IN  IF _is_chapter_boundary(page.text)
        THEN [chapter_num |-> st.chapter_num + 1,
              current_chapter_text |-> <<>>,
              current_chapter_images |-> <<>>,
              image_counter |-> counted,
              full_text |-> Append(st.full_text, page.text),
              chapters |-> IF text_buffer # <<>>
                           THEN Append(st.chapters,
                                       pdf_chapter(text_buffer, image_buffer, st.chapter_num))
                           ELSE st.chapters,
              images |-> st.images \o new_images]
        ELSE [chapter_num |-> st.chapter_num,
              current_chapter_text |-> text_buffer,
              current_chapter_images |-> image_buffer,
              image_counter |-> counted,
              full_text |-> Append(st.full_text, page.text),
              chapters |-> st.chapters,
              images |-> st.images \o new_images]

\* the end of _parse_pdf that closes a chapter out whatever is buffered
pdf_last_chapter_whatever_buffered(st) ==
    Append(st.chapters,
           pdf_chapter(st.current_chapter_text, st.current_chapter_images,
                       st.chapter_num))

\* the end of _parse_pdf: the last chapter, if pages are buffered
pdf_last_chapter(st) ==
    IF st.current_chapter_text # <<>>
    THEN Append(st.chapters,
                pdf_chapter(st.current_chapter_text, st.current_chapter_images,
                            st.chapter_num))
    ELSE st.chapters

----------------------------------------------------------------------------
(* Plain text and the accessors *)

\* _parse_txt that makes one chapter of a document without markers
_parse_txt_whole_as_chapter(text, old_chapters) ==
    [content |-> text,
     chapters |-> IF _detect_chapters_in_text(text) = <<>>
                  THEN Append(old_chapters, Chapter(1, <<>>, text, <<>>))
                  ELSE old_chapters \o _detect_chapters_in_text(text)]

\* _parse_txt: the content read and the chapter list after detection
_parse_txt(text, old_chapters) ==
    [content |-> text, chapters |-> old_chapters \o _detect_chapters_in_text(text)]

\* the lookup keeping the last chapter with the number
get_chapter_last_match(chs, n) ==
    LET hits == {i \in 1..Len(chs) : chs[i].number = n}
    IN  IF hits = {} THEN None ELSE Some(chs[MaxOr(hits, 0)])

\* get_chapter: the first chapter with the number, else None
get_chapter(chs, n) ==
    LET hits == {i \in 1..Len(chs) : chs[i].number = n}
    IN  IF hits = {} THEN None ELSE Some(chs[MinOr(hits, 0)])

get_chapter_count(chs) == Len(chs)
has_chapters(chs) == Len(chs) > 0

----------------------------------------------------------------------------
(* Bounds and inputs *)

MaxLines  == 3    \* lines of a generated text document
MaxPages  == 3    \* pages of a generated PDF
MaxDocs   == 2    \* documents of a generated EPUB
MaxParses == 2    \* parse() calls on one instance

\* the sequences over pool of length lo..hi
SeqsOf(pool, lo, hi) == UNION {[1..k -> pool] : k \in lo..hi}

\* the paths constructed over
MainPaths == {<<"a", ".", "t", "x", "t">>, <<"b", ".", "e", "p", "u", "b">>, <<"c", ".", "p", "d", "f">>}
PathNames == MainPaths \cup
    {<<"A", ".", "T", "X", "T">>, <<"b", ".", "E", "p", "u", "b">>, <<"c", ".", "P", "d", "F">>, <<"d", ".", "d", "o", "c", "x">>, <<"e">>, <<".", "t", "x", "t">>,
     <<"f", ".", "t", "x", "t", "/", "g">>, <<"h", ".", "t", "x", "t", ".", "b", "a", "k">>, <<"i", ".", "p", "d", "f", ".">>, <<"k", ".", "t", "a", "r", ".", "p", "d", "f">>}

AllLibs == [epub |-> TRUE, fitz |-> TRUE]
LibStates == [epub : BOOLEAN, fitz : BOOLEAN]

NoFile == [kind |-> "none", text |-> <<>>, pages |-> <<>>, items |-> <<>>]
TxtFile(text) == [kind |-> "txt", text |-> text, pages |-> <<>>, items |-> <<>>]
PdfFile(pages) == [kind |-> "pdf", text |-> <<>>, pages |-> pages, items |-> <<>>]
EpubFile(items) == [kind |-> "epub", text |-> <<>>, pages |-> <<>>, items |-> items]

\* the temp_txt_file and temp_simple_txt_file fixtures of the tests
temp_txt_file ==
    <<"P", "r", "o", "l", "o", "g", "u", "e", ":", " ", "T", "h", "e", " ",
      "B", "e", "g", "i", "n", "n", "i", "n", "g", "\n", "\n", "T", "h",
      "i", "s", " ", "i", "s", " ", "t", "h", "e", " ", "p", "r", "o", "l",
      "o", "g", "u", "e", " ", "c", "o", "n", "t", "e", "n", "t", ".",
      "\n", "I", "t", " ", "s", "e", "t", "s", " ", "u", "p", " ", "t",
      "h", "e", " ", "s", "t", "o", "r", "y", ".", "\n", "\n", "C", "h",
      "a", "p", "t", "e", "r", " ", "1", ":", " ", "F", "i", "r", "s", "t",
      " ", "A", "d", "v", "e", "n", "t", "u", "r", "e", "\n", "\n", "T",
      "h", "i", "s", " ", "i", "s", " ", "t", "h", "e", " ", "f", "i", "r",
      "s", "t", " ", "c", "h", "a", "p", "t", "e", "r", ".", "\n", "T",
      "h", "e", " ", "h", "e", "r", "o", " ", "b", "e", "g", "i", "n", "s",
      " ", "t", "h", "e", "i", "r", " ", "j", "o", "u", "r", "n", "e", "y",
      ".", "\n", "\n", "C", "h", "a", "p", "t", "e", "r", " ", "2", ":",
      " ", "T", "h", "e", " ", "C", "h", "a", "l", "l", "e", "n", "g", "e",
      "\n", "\n", "T", "h", "e", " ", "h", "e", "r", "o", " ", "f", "a",
      "c", "e", "s", " ", "t", "h", "e", "i", "r", " ", "f", "i", "r", "s",
      "t", " ", "c", "h", "a", "l", "l", "e", "n", "g", "e", ".", "\n",
      "T", "h", "e", "y", " ", "m", "u", "s", "t", " ", "o", "v", "e", "r",
      "c", "o", "m", "e", " ", "o", "b", "s", "t", "a", "c", "l", "e", "s",
      ".", "\n", "\n", "E", "x", "t", "r", "a", ":", " ", "B", "o", "n",
      "u", "s", " ", "C", "o", "n", "t", "e", "n", "t", "\n", "\n", "T",
      "h", "i", "s", " ", "i", "s", " ", "e", "x", "t", "r", "a", " ", "c",
      "o", "n", "t", "e", "n", "t", " ", "a", "f", "t", "e", "r", " ", "t",
      "h", "e", " ", "m", "a", "i", "n", " ", "s", "t", "o", "r", "y", ".",
      "\n">>
temp_simple_txt_file ==
    <<"T", "h", "i", "s", " ", "i", "s", " ", "a", " ", "s", "i", "m", "p",
      "l", "e", " ", "l", "i", "g", "h", "t", " ", "n", "o", "v", "e", "l",
      " ", "w", "i", "t", "h", "o", "u", "t", " ", "c", "h", "a", "p", "t",
      "e", "r", " ", "m", "a", "r", "k", "e", "r", "s", ".", "\n", "J",
      "u", "s", "t", " ", "p", "l", "a", "i", "n", " ", "t", "e", "x", "t",
      " ", "c", "o", "n", "t", "e", "n", "t", ".">>

\* the lines generated text documents are made of
TxtLines == {<<"P", "r", "o", "l", "o", "g", "u", "e", ":", " ", "A">>,
             <<"C", "h", "a", "p", "t", "e", "r", " ", "1", ":", " ", "B">>,
             <<"C", "h", "a", "p", "t", "e", "r", " ", "2", ":", " ", "C">>,
             <<"E", "x", "t", "r", "a", ":", " ", "D">>,
             <<"t", "e", "x", "t">>,
             <<>>,
             <<"c", "h", ".", "I", "V", " ", "x">>,
             <<"C", "h", "a", "p", "t", "e", "r", " ", "1">>}

TxtTexts == {join(NL, ls) : ls \in SeqsOf(TxtLines, 1, MaxLines)}
               \cup {temp_txt_file, temp_simple_txt_file}

\* the pages generated PDFs are made of
Png == <<"p", "n", "g">>
Page(text, n_images, first_raw) ==
    [text |-> text,
     images |-> [j \in 1..n_images |-> [raw |-> first_raw + j - 1, ext |-> Png]]]
PdfPages == {Page(<<"P", "r", "o", "l", "o", "g", "u", "e", ":", " ", "A", "\n", "b", "o", "d", "y">>, 1, 1),
             Page(<<"C", "h", "a", "p", "t", "e", "r", " ", "1", ":", " ", "B", "\n", "b", "o", "d", "y">>, 2, 2),
             Page(<<"t", "e", "x", "t", "\n", "C", "h", ".", "2">>, 0, 0),
             Page(<<"E", "x", "t", "r", "a", ":", " ", "D">>, 1, 4),
             Page(<<"t", "e", "x", "t">>, 0, 0)}

PdfDocs == SeqsOf(PdfPages, 0, MaxPages)

\* the documents and images generated EPUBs are made of
ImagePng == <<"i", "m", "a", "g", "e", "/", "p", "n", "g">>
EpubImages == <<ImageItem(<<"i", "/", "a">>, 1, ImagePng),
                ImageItem(<<"i", "/", "b">>, 2, ImagePng),
                ImageItem(<<"i", "/", "b", "a">>, 3, ImagePng)>>
EpubDocuments ==
    {DocumentItem(Some(<<"P", "r", "o", "l", "o", "g", "u", "e">>), <<<<"i", "/", "a">>>>, <<"p">>),
     DocumentItem(Some(<<"C", "h", "a", "p", "t", "e", "r", " ", "1">>), <<<<"a">>, <<"i", "/", "b">>>>, <<"c">>),
     DocumentItem(None, <<<<"z">>>>, <<"u">>),
     DocumentItem(Some(<<"E", "x", "t", "r", "a">>), <<<<>>, <<"i", "/", "a">>>>, <<"e">>),
     DocumentItem(Some(<<"P", "a", "r", "t", " ", "7">>), <<>>, <<"s">>)}

EpubBooks == {docs \o EpubImages : docs \in SeqsOf(EpubDocuments, 1, MaxDocs)}

\* the book generate_epub writes, as read back: four documents with their
\* images between them, the NCX, and the navigation document
sample_prologue ==
    DocumentItem(Some(<<"P", "r", "o", "l", "o", "g", "u", "e", ":", " ", "T", "h", "e", " ", "B", "e", "g", "i", "n", "n", "i", "n", "g">>),
      <<<<"i", "m", "a", "g", "e", "s", "/", "p", "r", "o", "l", "o", "g", "u", "e", "_", "i", "m", "g", "1", ".", "p", "n", "g">>>>,
      <<"P", "r", "o", "l", "o", "g", "u", "e", "\n", "P", "r", "o", "l",
      "o", "g", "u", "e", ":", " ", "T", "h", "e", " ", "B", "e", "g", "i",
      "n", "n", "i", "n", "g", "\n", "T", "h", "i", "s", " ", "i", "s",
      " ", "t", "h", "e", " ", "p", "r", "o", "l", "o", "g", "u", "e", " ",
      "o", "f", " ", "o", "u", "r", " ", "s", "a", "m", "p", "l", "e", " ",
      "l", "i", "g", "h", "t", " ", "n", "o", "v", "e", "l", ".", "\n",
      "I", "t", " ", "s", "e", "t", "s", " ", "t", "h", "e", " ", "s", "t",
      "a", "g", "e", " ", "f", "o", "r", " ", "t", "h", "e", " ", "a", "d",
      "v", "e", "n", "t", "u", "r", "e", " ", "t", "o", " ", "c", "o", "m",
      "e", ".", "\n", "T", "h", "e", " ", "w", "o", "r", "l", "d", " ",
      "w", "a", "s", " ", "a", "t", " ", "p", "e", "a", "c", "e", ",", " ",
      "b", "u", "t", " ", "t", "h", "a", "t", " ", "w", "a", "s", " ", "a",
      "b", "o", "u", "t", " ", "t", "o", " ", "c", "h", "a", "n", "g", "e",
      ".", ".", ".">>)
sample_ch1 ==
    DocumentItem(Some(<<"C", "h", "a", "p", "t", "e", "r", " ", "1", ":", " ", "T", "h", "e", " ", "H", "e", "r", "o", "'", "s", " ", "J", "o", "u", "r", "n", "e", "y">>),
      <<<<"i", "m", "a", "g", "e", "s", "/", "c", "h", "1", "_", "i", "m", "g", "1", ".", "p", "n", "g">>,
        <<"i", "m", "a", "g", "e", "s", "/", "c", "h", "1", "_", "i", "m", "g", "2", ".", "p", "n", "g">>>>,
      <<"C", "h", "a", "p", "t", "e", "r", " ", "1", "\n", "C", "h", "a",
      "p", "t", "e", "r", " ", "1", ":", " ", "T", "h", "e", " ", "H", "e",
      "r", "o", "'", "s", " ", "J", "o", "u", "r", "n", "e", "y", "\n",
      "O", "u", "r", " ", "h", "e", "r", "o", " ", "b", "e", "g", "i", "n",
      "s", " ", "t", "h", "e", "i", "r", " ", "a", "d", "v", "e", "n", "t",
      "u", "r", "e", " ", "i", "n", " ", "a", " ", "s", "m", "a", "l", "l",
      " ", "v", "i", "l", "l", "a", "g", "e", ".", "\n", "T", "h", "e",
      " ", "v", "i", "l", "l", "a", "g", "e", " ", "e", "l", "d", "e", "r",
      " ", "c", "a", "l", "l", "e", "d", " ", "u", "p", "o", "n", " ", "t",
      "h", "e", "m", " ", "f", "o", "r", " ", "a", "n", " ", "i", "m", "p",
      "o", "r", "t", "a", "n", "t", " ", "q", "u", "e", "s", "t", ".",
      "\n", "W", "i", "t", "h", " ", "d", "e", "t", "e", "r", "m", "i",
      "n", "a", "t", "i", "o", "n", " ", "i", "n", " ", "t", "h", "e", "i",
      "r", " ", "h", "e", "a", "r", "t", ",", " ", "t", "h", "e", "y", " ",
      "s", "e", "t", " ", "o", "f", "f", ".">>)
sample_ch2 ==
    DocumentItem(Some(<<"C", "h", "a", "p", "t", "e", "r", " ", "2", ":", " ", "T", "h", "e", " ", "F", "i", "r", "s", "t", " ", "C", "h", "a", "l", "l", "e", "n", "g", "e">>),
      <<<<"i", "m", "a", "g", "e", "s", "/", "c", "h", "2", "_", "i", "m", "g", "1", ".", "p", "n", "g">>>>,
      <<"C", "h", "a", "p", "t", "e", "r", " ", "2", "\n", "C", "h", "a",
      "p", "t", "e", "r", " ", "2", ":", " ", "T", "h", "e", " ", "F", "i",
      "r", "s", "t", " ", "C", "h", "a", "l", "l", "e", "n", "g", "e",
      "\n", "T", "h", "e", " ", "h", "e", "r", "o", " ", "e", "n", "c",
      "o", "u", "n", "t", "e", "r", "s", " ", "t", "h", "e", "i", "r", " ",
      "f", "i", "r", "s", "t", " ", "o", "b", "s", "t", "a", "c", "l", "e",
      ".", "\n", "A", " ", "f", "i", "e", "r", "c", "e", " ", "m", "o",
      "n", "s", "t", "e", "r", " ", "b", "l", "o", "c", "k", "s", " ", "t",
      "h", "e", " ", "p", "a", "t", "h", " ", "f", "o", "r", "w", "a", "r",
      "d", ".", "\n", "W", "i", "t", "h", " ", "c", "o", "u", "r", "a",
      "g", "e", " ", "a", "n", "d", " ", "s", "k", "i", "l", "l", ",", " ",
      "t", "h", "e", "y", " ", "f", "a", "c", "e", " ", "t", "h", "e", " ",
      "c", "h", "a", "l", "l", "e", "n", "g", "e", " ", "h", "e", "a", "d",
      "-", "o", "n", ".">>)
sample_extra ==
    DocumentItem(Some(<<"E", "x", "t", "r", "a", ":", " ", "B", "o", "n", "u", "s", " ", "S", "t", "o", "r", "y">>),
      <<>>,
      <<"E", "x", "t", "r", "a", "\n", "E", "x", "t", "r", "a", ":", " ",
      "B", "o", "n", "u", "s", " ", "S", "t", "o", "r", "y", "\n", "T",
      "h", "i", "s", " ", "i", "s", " ", "a", " ", "b", "o", "n", "u", "s",
      " ", "c", "h", "a", "p", "t", "e", "r", " ", "t", "h", "a", "t", " ",
      "t", "a", "k", "e", "s", " ", "p", "l", "a", "c", "e", " ", "a", "f",
      "t", "e", "r", " ", "t", "h", "e", " ", "m", "a", "i", "n", " ", "s",
      "t", "o", "r", "y", ".", "\n", "O", "u", "r", " ", "h", "e", "r",
      "o", " ", "r", "e", "f", "l", "e", "c", "t", "s", " ", "o", "n", " ",
      "t", "h", "e", "i", "r", " ", "j", "o", "u", "r", "n", "e", "y", " ",
      "a", "n", "d", " ", "t", "h", "e", " ", "f", "r", "i", "e", "n", "d",
      "s", " ", "t", "h", "e", "y", " ", "m", "a", "d", "e", ".", "\n",
      "T", "h", "e", " ", "a", "d", "v", "e", "n", "t", "u", "r", "e", " ",
      "c", "o", "n", "t", "i", "n", "u", "e", "s", ".", ".", ".">>)
sample_nav ==
    DocumentItem(Some(<<"S", "a", "m", "p", "l", "e", " ", "L", "i", "g", "h", "t", " ", "N", "o", "v", "e", "l">>),
      <<>>,
      <<"S", "a", "m", "p", "l", "e", " ", "L", "i", "g", "h", "t", " ", "N",
      "o", "v", "e", "l", "\n", "S", "a", "m", "p", "l", "e", " ", "L",
      "i", "g", "h", "t", " ", "N", "o", "v", "e", "l", "\n", "P", "r",
      "o", "l", "o", "g", "u", "e", "\n", "C", "h", "a", "p", "t", "e",
      "r", " ", "1", "\n", "C", "h", "a", "p", "t", "e", "r", " ", "2",
      "\n", "E", "x", "t", "r", "a">>)
sample_novel_epub ==
    <<sample_prologue,
      ImageItem(<<"i", "m", "a", "g", "e", "s", "/", "p", "r", "o", "l", "o", "g", "u", "e", "_", "i", "m", "g", "1", ".", "p", "n", "g">>, 1, ImagePng),
      sample_ch1,
      ImageItem(<<"i", "m", "a", "g", "e", "s", "/", "c", "h", "1", "_", "i", "m", "g", "1", ".", "p", "n", "g">>, 2, ImagePng),
      ImageItem(<<"i", "m", "a", "g", "e", "s", "/", "c", "h", "1", "_", "i", "m", "g", "2", ".", "p", "n", "g">>, 3, ImagePng),
      sample_ch2,
      ImageItem(<<"i", "m", "a", "g", "e", "s", "/", "c", "h", "2", "_", "i", "m", "g", "1", ".", "p", "n", "g">>, 4, ImagePng),
      sample_extra,
      NavigationItem,
      sample_nav>>

\* the documents a path can hold: every generated document behind the plain
\* lower-case paths when both libraries are there, one small document else
Documents(p, exists, l) ==
    LET ext == detect_ext(p)
        full == p \in MainPaths /\ l = AllLibs
    IN  IF ~exists \/ ext \notin FileFormat THEN {NoFile}
        ELSE IF ext = TXT
             THEN {TxtFile(x) : x \in IF full THEN TxtTexts ELSE {temp_simple_txt_file}}
        ELSE IF ext = PDF
             THEN {PdfFile(x) : x \in IF full THEN PdfDocs ELSE SeqsOf(PdfPages, 1, 1)}
        ELSE {EpubFile(x) : x \in IF full THEN EpubBooks \cup {sample_novel_epub}
                                           ELSE {sample_novel_epub}}

----------------------------------------------------------------------------
(* The state machine: construction, parse() and the accessors *)

ChapterArgs == {-1, 0, 1, 2, 999}

\* no script is running
NoProcess ==
    /\ argv = <<>>
    /\ environ = <<>>
    /\ config = <<>>
    /\ stdout = <<>>
    /\ test_files = {}
    /\ exit_code = <<>>

IdleLocals ==
    /\ page_num = 0
    /\ chapter_num = 0
    /\ current_chapter_text = <<>>
    /\ current_chapter_images = <<>>
    /\ image_counter = <<>>
    /\ full_text = <<>>

Returned(op, arg, value) == [op |-> op, arg |-> arg, value |-> value]

Init ==
    /\ file_path \in PathNames
    /\ path_exists \in BOOLEAN
    /\ libs \in LibStates
    /\ file \in Documents(file_path, path_exists, libs)
    /\ pc = "new"
    /\ format = None
    /\ content = None
    /\ chapters = <<>>
    /\ images = <<>>
    /\ raised = None
    /\ ret = Returned("none", 0, None)
    /\ nparse = 0
    /\ IdleLocals
    /\ NoProcess
    /\ fn_args = <<>>
    /\ fn_ret = None

\* LightNovelParser(file_path)
__init__ ==
    /\ pc = "new"
    /\ LET out == init_outcome(file_path, path_exists)
       IN  IF out.ok
           THEN /\ pc' = "ready"
                /\ format' = Some(out.value)
                /\ raised' = None
           ELSE /\ pc' = "failed"
                /\ format' = None
                /\ raised' = out.error
    /\ content' = None
    /\ chapters' = <<>>
    /\ images' = <<>>
    /\ ret' = Returned("__init__", 0, None)
    /\ UNCHANGED <<procVars, fileVars, pdfVars, fnVars, nparse>>

\* parse() on a text document
parse_txt ==
    /\ pc = "ready" /\ format = Some(TXT) /\ nparse < MaxParses
    /\ LET out == _parse_txt(file.text, chapters)
       IN  /\ content' = Some(out.content)
           /\ chapters' = out.chapters
    /\ raised' = None
    /\ ret' = Returned("parse", 0, None)
    /\ nparse' = nparse + 1
    /\ UNCHANGED <<procVars, fileVars, pdfVars, fnVars, pc, format, images>>

\* parse() on an EPUB that sets content before it looks for the library
parse_epub_checking_late ==
    /\ pc = "ready" /\ format = Some(EPUB) /\ nparse < MaxParses
    /\ IF ~libs.epub
       THEN /\ raised' = Some(ImportError("ebooklib"))
            /\ content' = Some(<<>>)
            /\ UNCHANGED <<chapters, images>>
       ELSE LET out == _parse_epub(file, chapters, images)
            IN  /\ raised' = None
                /\ content' = Some(out.content)
                /\ chapters' = out.chapters
                /\ images' = out.images
    /\ ret' = Returned("parse", 0, None)
    /\ nparse' = nparse + 1
    /\ UNCHANGED <<procVars, fileVars, pdfVars, fnVars, pc, format>>

\* parse() on an EPUB: the import check, then the whole of _parse_epub
parse_epub ==
    /\ pc = "ready" /\ format = Some(EPUB) /\ nparse < MaxParses
    /\ IF ~libs.epub
       THEN /\ raised' = Some(ImportError("ebooklib"))
            /\ UNCHANGED <<content, chapters, images>>
       ELSE LET out == _parse_epub(file, chapters, images)
            IN  /\ raised' = None
                /\ content' = Some(out.content)
                /\ chapters' = out.chapters
                /\ images' = out.images
    /\ ret' = Returned("parse", 0, None)
    /\ nparse' = nparse + 1
    /\ UNCHANGED <<procVars, fileVars, pdfVars, fnVars, pc, format>>

\* parse() on a PDF, up to the page loop: the import check and the locals
parse_pdf_begin ==
    /\ pc = "ready" /\ format = Some(PDF) /\ nparse < MaxParses
    /\ IF ~libs.fitz
       THEN /\ raised' = Some(ImportError("PyMuPDF"))
            /\ UNCHANGED <<pc, pdfVars>>
       ELSE /\ raised' = None
            /\ pc' = "pdf_loop"
            /\ page_num' = 0
            /\ chapter_num' = 1
            /\ current_chapter_text' = <<>>
            /\ current_chapter_images' = <<>>
            /\ image_counter' = <<>>
            /\ full_text' = <<>>
    /\ ret' = Returned("parse", 0, None)
    /\ nparse' = nparse + 1
    /\ UNCHANGED <<procVars, fileVars, parserVars, fnVars>>

PdfLocals ==
    [chapter_num |-> chapter_num,
     current_chapter_text |-> current_chapter_text,
     current_chapter_images |-> current_chapter_images,
     image_counter |-> image_counter,
     full_text |-> full_text,
     chapters |-> chapters,
     images |-> images]

\* one pass of the page loop
parse_pdf_page ==
    /\ pc = "pdf_loop" /\ page_num < Len(file.pages)
    /\ LET st == pdf_page(file.pages[page_num + 1], PdfLocals)
       IN  /\ chapter_num' = st.chapter_num
           /\ current_chapter_text' = st.current_chapter_text
           /\ current_chapter_images' = st.current_chapter_images
           /\ image_counter' = st.image_counter
           /\ full_text' = st.full_text
           /\ chapters' = st.chapters
           /\ images' = st.images
    /\ page_num' = page_num + 1
    /\ UNCHANGED <<procVars, fileVars, fnVars, pc, format, content, raised, ret, nparse>>

\* after the loop: the last chapter, the content, and the return
parse_pdf_end ==
    /\ pc = "pdf_loop" /\ page_num = Len(file.pages)
    /\ chapters' = pdf_last_chapter(PdfLocals)
    /\ content' = Some(join(NLNL, full_text))
    /\ pc' = "ready"
    /\ page_num' = 0
    /\ chapter_num' = 0
    /\ current_chapter_text' = <<>>
    /\ current_chapter_images' = <<>>
    /\ image_counter' = <<>>
    /\ full_text' = <<>>
    /\ UNCHANGED <<procVars, fileVars, fnVars, format, images, raised, ret, nparse>>

\* parser.get_chapter(n), parser.get_chapter_count(), parser.has_chapters()
call_get_chapter ==
    /\ pc = "ready"
    /\ \E n \in ChapterArgs : ret' = Returned("get_chapter", n, get_chapter(chapters, n))
    /\ raised' = None
    /\ UNCHANGED <<procVars, fileVars, parserVars, pdfVars, fnVars, pc, nparse>>

call_get_chapter_count ==
    /\ pc = "ready"
    /\ ret' = Returned("get_chapter_count", 0, get_chapter_count(chapters))
    /\ raised' = None
    /\ UNCHANGED <<procVars, fileVars, parserVars, pdfVars, fnVars, pc, nparse>>

call_has_chapters ==
    /\ pc = "ready"
    /\ ret' = Returned("has_chapters", 0, has_chapters(chapters))
    /\ raised' = None
    /\ UNCHANGED <<procVars, fileVars, parserVars, pdfVars, fnVars, pc, nparse>>

Next ==
    \/ __init__
    \/ parse_txt
    \/ parse_epub
    \/ parse_pdf_begin
    \/ parse_pdf_page
    \/ parse_pdf_end
    \/ call_get_chapter
    \/ call_get_chapter_count
    \/ call_has_chapters

Spec == Init /\ [][Next]_vars

----------------------------------------------------------------------------
(* Construction *)

\* the extension of a path, lower-cased: what follows the last dot of the
\* final component; empty when that dot is the first or the last character of
\* the name or there is none
LoweredExtensionOfName(name, last_dot) ==
    IF 1 < last_dot /\ last_dot < Len(name)
    THEN lower(SubSeq(name, last_dot + 1, Len(name)))
    ELSE <<>>
LoweredExtension(p) ==
    LoweredExtensionOfName(PathName(p),
                           MaxOr({i \in 1..Len(PathName(p)) : PathName(p)[i] = "."}, 0))

\* C1: over an existing path, construction fails with a ValueError naming the
\* lower-cased extension when that is not txt, epub or pdf (an empty one
\* included), and otherwise succeeds with format the member of that name,
\* whatever the letter case of the extension.
C1_ExtensionDecidesConstruction ==
    (pc # "new" /\ path_exists) =>
        IF LoweredExtension(file_path) \in {TXT, EPUB, PDF}
        THEN pc # "failed" /\ format = Some(LoweredExtension(file_path))
        ELSE /\ pc = "failed"
             /\ format = None
             /\ raised = Some(ValueError(LoweredExtension(file_path)))

\* an existing path with an unsupported extension was refused
C1_Witness ==
    /\ pc = "failed" /\ path_exists
    /\ file_path = <<"h", ".", "t", "x", "t", ".", "b", "a", "k">>
    /\ raised = Some(ValueError(<<"b", "a", "k">>))

\* C2: over a path that does not exist, construction fails with
\* FileNotFoundError whatever the extension, never with ValueError.
C2_MissingPathIsNotFound ==
    (pc # "new" /\ ~path_exists) =>
        /\ pc = "failed"
        /\ raised = Some(FileNotFoundError)
        /\ format = None

\* a missing path with an unsupported extension was refused as not found
C2_Witness ==
    /\ pc = "failed" /\ ~path_exists
    /\ file_path = <<"d", ".", "d", "o", "c", "x">>
    /\ raised = Some(FileNotFoundError)

----------------------------------------------------------------------------
(* Plain text *)

\* the state right after the first parse() of a text document returned
FirstTxtParseDone ==
    /\ pc = "ready" /\ format = Some(TXT) /\ nparse = 1 /\ ret.op = "parse"

\* the markers of a text: every match of the three patterns
Markers(text) == Range(collect_matches(text))

\* the number a marker stands for, by its kind
MarkerNumber(m) ==
    IF m.chapter_type = "prologue" THEN 0
    ELSE IF m.chapter_type = "extra" THEN -1
    ELSE _parse_chapter_number(m.num_str)

\* chapter i is the marker that has exactly i - 1 markers starting before it
ChapterIsMarkerInOffsetOrder(text, ms, i) ==
    \E m \in ms :
        /\ Cardinality({x \in ms : x.start < m.start}) = i - 1
        /\ chapters[i].number = MarkerNumber(m)
        /\ chapters[i].title = strip(Slice(text, m.start, m.end))

ChaptersFollowMarkers(text, ms) ==
    /\ Len(chapters) = Cardinality(ms)
    /\ \A i \in 1..Len(chapters) : ChapterIsMarkerInOffsetOrder(text, ms, i)

\* C3: the first parse of a text document gives one chapter per marker, in
\* ascending order of the markers' start offsets; a prologue marker numbers 0,
\* an extra marker -1, a chapter marker its numeral, and the title is the
\* marker text.  The markers Prologue, Chapter 1, Chapter 2, Extra in that order
\* give the numbers 0, 1, 2, -1 in that order.
C3_TextChaptersInMarkerOrder ==
    FirstTxtParseDone =>
        /\ ChaptersFollowMarkers(file.text, Markers(file.text))
        /\ file.text = temp_txt_file =>
               [i \in 1..Len(chapters) |-> chapters[i].number] = <<0, 1, 2, -1>>

\* the text of the tests with its four markers was parsed into four chapters,
\* the last of them the extra one
C3_Witness ==
    /\ FirstTxtParseDone
    /\ file.text = temp_txt_file
    /\ Len(chapters) = 4
    /\ chapters[4].number = -1

\* C4: the first parse of a text document without a marker leaves chapters and
\* images empty, so has_chapters() is false and get_chapter_count() is 0,
\* while content is the whole text of the file.
C4_NoMarkerNoChapter ==
    (FirstTxtParseDone /\ Markers(file.text) = {}) =>
        /\ chapters = <<>>
        /\ images = <<>>
        /\ ~has_chapters(chapters)
        /\ get_chapter_count(chapters) = 0
        /\ content = Some(file.text)

\* the text without markers of the tests was parsed
C4_Witness ==
    /\ FirstTxtParseDone
    /\ file.text = temp_simple_txt_file
    /\ content = Some(temp_simple_txt_file)

----------------------------------------------------------------------------
(* The title-based number detector, called on its own *)

MaxTitleWords == 2

TitleWords ==
    {<<"P", "r", "o", "l", "o", "g", "u", "e">>,
     <<"I", "N", "T", "R", "O", "D", "U", "C", "T", "I", "O", "N">>,
     <<"P", "r", "o", "l", "o", "g">>,
     <<"E", "x", "t", "r", "a">>,
     <<"e", "p", "i", "l", "o", "g", "u", "e">>,
     <<"A", "f", "t", "e", "r", "w", "o", "r", "d">>,
     <<"B", "O", "N", "U", "S">>,
     <<"C", "h", "a", "p", "t", "e", "r">>,
     <<"C", "h", ".">>,
     <<"c", "h">>,
     <<"5">>,
     <<"1", "2">>,
     <<"0", "0", "7">>,
     <<"V", "o", "l", "2">>,
     <<"C", "h", "a", "p", "t", "e", "r", "7">>, <<"C", "h", "a", "p", "t", "e", "r", " ", "5">>,
     <<"M", "a", "r", "c", "h">>,
     <<"S", "o", "m", "e">>,
     <<"T", "i", "t", "l", "e">>}

\* the titles: up to MaxTitleWords words with a blank between them
Titles == {join(<<" ">>, ws) : ws \in SeqsOf(TitleWords, 1, MaxTitleWords)}
Defaults == {1, 42}

\* no parser is under construction while a helper is called on its own
NoParser ==
    /\ file_path = <<>>
    /\ path_exists = FALSE
    /\ libs = AllLibs
    /\ file = NoFile
    /\ format = None
    /\ content = None
    /\ chapters = <<>>
    /\ images = <<>>
    /\ raised = None
    /\ ret = Returned("none", 0, None)
    /\ nparse = 0
    /\ IdleLocals

InitDetect ==
    /\ NoParser
    /\ NoProcess
    /\ pc = "_detect_chapter_number"
    /\ fn_args \in {[title |-> t, default |-> d] : t \in Titles, d \in Defaults}
    /\ fn_ret = None

\* self._detect_chapter_number(title, default)
call_detect_chapter_number ==
    /\ pc = "_detect_chapter_number"
    /\ IsNone(fn_ret)
    /\ fn_ret' = Some(_detect_chapter_number(fn_args.title, fn_args.default))
    /\ UNCHANGED <<procVars, fileVars, parserVars, pdfVars, fn_args, pc, raised, ret, nparse>>

NextDetect == call_detect_chapter_number

SpecDetect == InitDetect /\ [][NextDetect]_vars

\* the detector has returned
Detected == pc = "_detect_chapter_number" /\ ~IsNone(fn_ret)

\* word occurs in the lower-cased title
TitleHolds(t, word) ==
    \E i \in 1..Len(t) :
        /\ i + Len(word) - 1 <= Len(t)
        /\ \A k \in 1..Len(word) : lower_char(t[i + k - 1]) = word[k]

HoldsPrologueWord(t) ==
    \/ TitleHolds(t, <<"p", "r", "o", "l", "o", "g", "u", "e">>)
    \/ TitleHolds(t, <<"i", "n", "t", "r", "o", "d", "u", "c", "t", "i", "o", "n">>)
HoldsExtraWord(t) ==
    \/ TitleHolds(t, <<"e", "x", "t", "r", "a">>)
    \/ TitleHolds(t, <<"e", "p", "i", "l", "o", "g", "u", "e">>)
    \/ TitleHolds(t, <<"a", "f", "t", "e", "r", "w", "o", "r", "d">>)
    \/ TitleHolds(t, <<"b", "o", "n", "u", "s">>)

\* the title reads token, blanks, digits from position i on, the digits being
\* t[j..k] and as many as there are
ReadsTokenNumber(t, token, i, j, k) ==
    /\ i + Len(token) <= j /\ j <= k /\ k <= Len(t)
    /\ \A x \in 1..Len(token) : lower_char(t[i + x - 1]) = token[x]
    /\ \A x \in (i + Len(token))..(j - 1) : t[x] \in {" ", "\t", "\n"}
    /\ \A x \in j..k : t[x] \in DigitSet
    /\ k = Len(t) \/ t[k + 1] \notin DigitSet

\* the "chapter N" / "ch N" / "ch. N" occurrences of a title: where each starts
\* and its N
TokenNumbers(t) ==
    {[at |-> i, n |-> DecimalValue(SubSeq(t, j, k))] :
        <<i, j, k>> \in {x \in (1..Len(t)) \X (1..Len(t)) \X (1..Len(t)) :
            \E token \in {<<"c", "h", "a", "p", "t", "e", "r">>, <<"c", "h", ".">>, <<"c", "h">>} : ReadsTokenNumber(t, token, x[1], x[2], x[3])}}

\* the decimal numbers of a title that stand alone: t[j..k] is a run of digits
\* with no letter, digit or underscore next to it
StandaloneNumbers(t) ==
    {[at |-> x[1], n |-> DecimalValue(SubSeq(t, x[1], x[2]))] :
        x \in {y \in (1..Len(t)) \X (1..Len(t)) :
            /\ y[1] <= y[2]
            /\ \A z \in y[1]..y[2] : t[z] \in DigitSet
            /\ y[1] = 1 \/ t[y[1] - 1] \notin WordSet
            /\ y[2] = Len(t) \/ t[y[2] + 1] \notin WordSet}}

\* the number of the leftmost occurrence
Leftmost(occurrences) ==
    (CHOOSE o \in occurrences : \A other \in occurrences : o.at <= other.at).n

\* C5 as stated: 0 for a title holding "prologue" or "introduction", -1 for one
\* holding "extra", "epilogue", "afterword" or "bonus", N for one matching
\* "Chapter N" or "Ch. N", and the default for every other title.
C5_AsStated ==
    Detected =>
        /\ HoldsPrologueWord(fn_args.title) => The(fn_ret) = 0
        /\ HoldsExtraWord(fn_args.title) => The(fn_ret) = -1
        /\ TokenNumbers(fn_args.title) # {} =>
               The(fn_ret) = Leftmost(TokenNumbers(fn_args.title))
        /\ (/\ ~HoldsPrologueWord(fn_args.title)
            /\ ~HoldsExtraWord(fn_args.title)
            /\ TokenNumbers(fn_args.title) = {}) => The(fn_ret) = fn_args.default

\* C5: the detector decides in this order: 0 for a title holding "prologue",
\* "prolog" or "introduction" in any case; else -1 for one holding "extra",
\* "epilogue", "afterword" or "bonus"; else the N of the leftmost "chapter N",
\* "ch N" or "ch. N"; else the leftmost decimal number standing alone; else the
\* default.
C5_DetectorCascade ==
    Detected =>
        The(fn_ret) =
            IF HoldsPrologueWord(fn_args.title) \/ TitleHolds(fn_args.title, <<"p", "r", "o", "l", "o", "g">>) THEN 0
            ELSE IF HoldsExtraWord(fn_args.title) THEN -1
            ELSE IF TokenNumbers(fn_args.title) # {}
                 THEN Leftmost(TokenNumbers(fn_args.title))
            ELSE IF StandaloneNumbers(fn_args.title) # {}
                 THEN Leftmost(StandaloneNumbers(fn_args.title))
            ELSE fn_args.default

\* a title with a number that does not stand alone before one that does gave
\* the latter, not the default
C5_Witness ==
    /\ Detected
    /\ fn_args.title = <<"V", "o", "l", "2", " ", "5">>
    /\ fn_args.default = 42
    /\ fn_ret = Some(5)

----------------------------------------------------------------------------
(* The Roman-numeral-aware integer parser, called on its own *)

MaxRoman == 3999
MaxDecimal == 120
MaxLeadingZeros == 2

RomanOnes     == <<<<>>, <<"I">>, <<"I", "I">>, <<"I", "I", "I">>, <<"I", "V">>, <<"V">>, <<"V", "I">>, <<"V", "I", "I">>, <<"V", "I", "I", "I">>, <<"I", "X">>>>
RomanTens     == <<<<>>, <<"X">>, <<"X", "X">>, <<"X", "X", "X">>, <<"X", "L">>, <<"L">>, <<"L", "X">>, <<"L", "X", "X">>, <<"L", "X", "X", "X">>, <<"X", "C">>>>
RomanHundreds == <<<<>>, <<"C">>, <<"C", "C">>, <<"C", "C", "C">>, <<"C", "D">>, <<"D">>, <<"D", "C">>, <<"D", "C", "C">>, <<"D", "C", "C", "C">>, <<"C", "M">>>>

\* the standard subtractive numeral of n >= 1, thousands written as M's
RomanNumeral(n) ==
    [i \in 1..(n \div 1000) |-> "M"]
        \o RomanHundreds[((n \div 100) % 10) + 1]
        \o RomanTens[((n \div 10) % 10) + 1]
        \o RomanOnes[(n % 10) + 1]

\* the numeral strings handed to the parser, each with the integer it writes
RomanInputs ==
    {[num_str |-> RomanNumeral(n), n |-> n] : n \in 1..MaxRoman}
        \cup {[num_str |-> lower(RomanNumeral(n)), n |-> n] : n \in 1..MaxRoman}
DecimalInputs ==
    {[num_str |-> [i \in 1..z |-> "0"] \o str_int(n), n |-> n] :
        n \in 0..MaxDecimal, z \in 0..MaxLeadingZeros}

InitRoman ==
    /\ NoParser
    /\ NoProcess
    /\ pc = "_parse_chapter_number"
    /\ fn_args \in RomanInputs \cup DecimalInputs
    /\ fn_ret = None

\* self._parse_chapter_number(num_str)
call_parse_chapter_number ==
    /\ pc = "_parse_chapter_number"
    /\ IsNone(fn_ret)
    /\ fn_ret' = Some(_parse_chapter_number(fn_args.num_str))
    /\ UNCHANGED <<procVars, fileVars, parserVars, pdfVars, fn_args, pc, raised, ret, nparse>>

NextRoman == call_parse_chapter_number

SpecRoman == InitRoman /\ [][NextRoman]_vars

----------------------------------------------------------------------------
(* The accessors *)

AccessorNames == {"get_chapter", "get_chapter_count", "has_chapters"}

\* what the last call returned is right for the chapters as they stand
AccessorResults ==
    /\ ret.op = "get_chapter" =>
           IF \A i \in 1..Len(chapters) : chapters[i].number # ret.arg
           THEN ret.value = None
           ELSE \E i \in 1..Len(chapters) :
                    /\ chapters[i].number = ret.arg
                    /\ \A j \in 1..(i - 1) : chapters[j].number # ret.arg
                    /\ ret.value = Some(chapters[i])
    /\ ret.op = "get_chapter_count" => ret.value = Len(chapters)
    /\ ret.op = "has_chapters" => (ret.value <=> Len(chapters) # 0)

\* C7: in every parser state, get_chapter(n) returns the first chapter in list
\* order numbered n, also when several share the number, and nothing when none
\* does; get_chapter_count() is the length of chapters; has_chapters() is true
\* iff that length is not 0; and a call of an accessor leaves content, chapters
\* and images as they were.
C7_AccessorsReadOnlyAndRight ==
    /\ []AccessorResults
    /\ [][ret'.op \in AccessorNames => UNCHANGED <<content, chapters, images>>]_vars

\* get_chapter(n) was called where two different chapters are numbered n, and
\* returned the earlier one
C7_Witness ==
    /\ ret.op = "get_chapter"
    /\ \E i, j \in 1..Len(chapters) :
           /\ i < j
           /\ chapters[i].number = ret.arg /\ chapters[j].number = ret.arg
           /\ chapters[i] # chapters[j]
           /\ ret.value = Some(chapters[i])

----------------------------------------------------------------------------
(* PDF *)

\* the state after the first parse() of a PDF returned
FirstPdfParseDone ==
    /\ pc = "ready" /\ format = Some(PDF) /\ nparse = 1 /\ libs.fitz

\* the pages whose own text holds a boundary marker
BoundaryPages(pages) == {i \in 1..Len(pages) : _is_chapter_boundary(pages[i].text)}

\* the pages chapters end at: each boundary page, and the last page
EndPages(pages) == BoundaryPages(pages) \cup (IF pages = <<>> THEN {} ELSE {Len(pages)})

\* the texts of pages first..last, one per line
PagesText(pages, first, last) ==
    join(NL, [j \in 1..(last - first + 1) |-> pages[first + j - 1].text])

\* chapter k is the pages after the end page before its own up to its own,
\* its own being the k-th end page
ChapterIsPageRange(pages, ends, k) ==
    \E last \in ends :
        /\ Cardinality({e \in ends : e < last}) = k - 1
        /\ chapters[k].content =
               PagesText(pages, MaxOr({e \in ends : e < last}, 0) + 1, last)

\* C8: the first parse of a PDF gives chapters that are contiguous page ranges
\* in page order, every page in exactly one: a chapter ends at a page holding
\* a boundary marker, that page included, and a last chapter holds the pages
\* after the last boundary page if there are any; so there are as many
\* chapters as boundary pages, and one more when the last page is none.
C8_PdfChaptersArePageRanges ==
    FirstPdfParseDone =>
        /\ Len(chapters) = Cardinality(BoundaryPages(file.pages))
               + (IF file.pages # <<>> /\ Len(file.pages) \notin BoundaryPages(file.pages)
                  THEN 1 ELSE 0)
        /\ Len(chapters) = Cardinality(EndPages(file.pages))
        /\ \A k \in 1..Len(chapters) :
               ChapterIsPageRange(file.pages, EndPages(file.pages), k)

\* a boundary page closed a chapter of two pages, the page after it went into
\* a last chapter, and the numbers of the two do not ascend
C8_Witness ==
    /\ FirstPdfParseDone
    /\ Len(file.pages) = 3
    /\ BoundaryPages(file.pages) = {2}
    /\ Len(chapters) = 2
    /\ chapters[1].number > chapters[2].number

\* every image among the given ones has chapter_num and image_num from 1 up
NumberedFromOne(imgs) ==
    \A i \in 1..Len(imgs) : imgs[i].chapter_num >= 1 /\ imgs[i].image_num >= 1

\* C9: every image the PDF path extracts has chapter_num >= 1 and
\* image_num >= 1, in the parser's list, in the page loop's buffer and in the
\* chapters, whatever number the chapter holding it resolves to.
C9_PdfImagesNumberedFromOne ==
    format = Some(PDF) =>
        /\ NumberedFromOne(images)
        /\ NumberedFromOne(current_chapter_images)
        /\ \A k \in 1..Len(chapters) : NumberedFromOne(chapters[k].images)

\* a chapter that resolved to 0 or -1 holds an image, and so does the parser
C9_Witness ==
    /\ FirstPdfParseDone
    /\ images # <<>>
    /\ \E k \in 1..Len(chapters) :
           /\ chapters[k].number \in {0, -1}
           /\ chapters[k].images # <<>>
           /\ NumberedFromOne(chapters[k].images)

----------------------------------------------------------------------------
(* EPUB: the generated sample *)

\* the state after the first parse() of the generated sample EPUB returned
SampleEpubParsed ==
    /\ pc = "ready" /\ format = Some(EPUB) /\ nparse = 1 /\ libs.epub
    /\ file = EpubFile(sample_novel_epub)

\* get_chapter(n) is there and is the given document: its heading and its text
LookupIsDocument(n, doc) ==
    /\ get_chapter(chapters, n) # None
    /\ The(get_chapter(chapters, n)).title = The(doc.title)
    /\ The(get_chapter(chapters, n)).content = doc.text

\* the image references of the sample that resolve: a document, one of its img
\* tags and an image of the container whose name holds the src of the tag
ResolvableReferences(items) ==
    {<<d, k, i>> \in (1..Len(items)) \X (1..2) \X (1..Len(items)) :
        /\ items[d].type = "ITEM_DOCUMENT"
        /\ k <= Len(items[d].imgs)
        /\ items[d].imgs[k] # <<>>
        /\ items[i].type = "ITEM_IMAGE"
        /\ \E at \in 0..Len(items[i].name) :
               /\ at + Len(items[d].imgs[k]) <= Len(items[i].name)
               /\ SubSeq(items[i].name, at + 1, at + Len(items[d].imgs[k])) = items[d].imgs[k]}

\* C10: parsing the generated sample EPUB gives at least 3 chapters;
\* get_chapter(0), (1), (2) and (-1) are there and are the Prologue, Chapter 1,
\* Chapter 2 and Extra documents; the chapter numbered 1 holds at least 2
\* images; and there are as many images as image references that resolve by
\* substring match of the src, which is 4.
C10_SampleEpubParses ==
    SampleEpubParsed =>
        /\ Len(chapters) >= 3
        /\ LookupIsDocument(0, sample_prologue)
        /\ LookupIsDocument(1, sample_ch1)
        /\ LookupIsDocument(2, sample_ch2)
        /\ LookupIsDocument(-1, sample_extra)
        /\ Len(The(get_chapter(chapters, 1)).images) >= 2
        /\ Len(images) = Cardinality(ResolvableReferences(sample_novel_epub))
        /\ Len(images) = 4

\* the sample was parsed: its four documents and its navigation page became
\* chapters, and its four images were found
C10_Witness ==
    /\ SampleEpubParsed
    /\ Len(chapters) = 5
    /\ Len(images) = 4
    /\ get_chapter(chapters, -1) # None

----------------------------------------------------------------------------
(* EPUB: the order of the chapters *)

\* parse() of an EPUB has returned (any number of times) with the library there
EpubParsed ==
    /\ pc = "ready" /\ format = Some(EPUB) /\ nparse >= 1 /\ libs.epub

\* the chapters of the documents of a book, in document order: what one pass
\* over the items appends
InDocumentOrder(items) ==
    epub_loop(items, 1, [chapter_num |-> 1, image_counter |-> <<>>,
                         chapters |-> <<>>, images |-> <<>>]).chapters

\* the chapters numbered n among chs, in the order they have in chs
Numbered(chs, n) == LET Is(c) == c.number = n IN SelectSeq(chs, Is)

\* s written k times in a row
RECURSIVE Times(_, _)
Times(s, k) == IF k = 0 THEN <<>> ELSE s \o Times(s, k - 1)

NonDecreasing(chs) ==
    \A i \in 1..(Len(chs) - 1) : chs[i].number <= chs[i + 1].number

\* C11: after any number of parse() calls on an EPUB the chapters are in
\* non-decreasing order of number (-1 before 0 before the positive ones), and
\* the chapters of one number stand in document order, those of an earlier
\* parse before those of a later one.
C11_EpubChaptersSortedStably ==
    EpubParsed =>
        /\ NonDecreasing(chapters)
        /\ Len(chapters) = nparse * Len(InDocumentOrder(file.items))
        /\ \A n \in {chapters[i].number : i \in 1..Len(chapters)} :
               Numbered(chapters, n) = Times(Numbered(InDocumentOrder(file.items), n), nparse)

\* a book whose prologue comes after another section was parsed twice: the
\* chapters that resolve to -1 come first, both of them
C11_Witness ==
    /\ EpubParsed
    /\ nparse = 2
    /\ Len(chapters) = 4
    /\ InDocumentOrder(file.items)[1].number = 0
    /\ InDocumentOrder(file.items)[2].number = -1
    /\ [i \in 1..4 |-> chapters[i].number] = <<-1, -1, 0, 0>>

----------------------------------------------------------------------------
(* Images and the chapters that hold them *)

\* C12 as stated: after a parse, every image of every chapter carries the
\* number of that chapter as its chapter_num (0 in a prologue, -1 in an extra
\* section, the positive number in a regular chapter); in a PDF it is only
\* known to be 1 or more.
C12_ImagesCarryOwnersNumber ==
    (pc = "ready" /\ nparse >= 1) =>
        \A k \in 1..Len(chapters) :
            \A i \in 1..Len(chapters[k].images) :
                IF format = Some(PDF)
                THEN chapters[k].images[i].chapter_num >= 1
                ELSE chapters[k].images[i].chapter_num = chapters[k].number

----------------------------------------------------------------------------
(* parse() called again *)

\* the locals of _parse_pdf after pages i.. of a fresh instance's first parse
RECURSIVE PdfFrom(_, _, _)
PdfFrom(pages, i, st) ==
    IF i > Len(pages) THEN st ELSE PdfFrom(pages, i + 1, pdf_page(pages[i], st))

FreshPdfLocals ==
    [chapter_num |-> 1, current_chapter_text |-> <<>>, current_chapter_images |-> <<>>,
     image_counter |-> <<>>, full_text |-> <<>>, chapters |-> <<>>, images |-> <<>>]

\* what one parse() of the file leaves in a fresh instance
AfterOneParse(f) ==
    CASE f.kind = "txt" ->
             [chapters |-> _detect_chapters_in_text(f.text), images |-> <<>>,
              content |-> f.text]
      [] f.kind = "epub" ->
             _parse_epub(f, <<>>, <<>>)
      [] f.kind = "pdf" ->
             [chapters |-> pdf_last_chapter(PdfFrom(f.pages, 1, FreshPdfLocals)),
              images |-> PdfFrom(f.pages, 1, FreshPdfLocals).images,
              content |-> join(NLNL, PdfFrom(f.pages, 1, FreshPdfLocals).full_text)]

\* parse() has returned nparse times, each time without raising
ParsedEachTime ==
    /\ pc = "ready" /\ nparse >= 1
    /\ \/ format = Some(TXT)
       \/ format = Some(EPUB) /\ libs.epub
       \/ format = Some(PDF) /\ libs.fitz

\* every chapter's title, a blank line, its text, and a blank line between
\* chapters
TitlesAndTexts(chs) ==
    join(NLNL, [i \in 1..Len(chs) |-> chs[i].title \o NLNL \o chs[i].content])

\* C13 as stated: after k parse() calls chapters and images are k times as
\* long as after one, while content is what it was after one call.
C13_AsStated ==
    ParsedEachTime =>
        /\ Len(chapters) = nparse * Len(AfterOneParse(file).chapters)
        /\ Len(images) = nparse * Len(AfterOneParse(file).images)
        /\ content = Some(AfterOneParse(file).content)

\* C13: after k parse() calls over the same file chapters and images are k
\* times as long as after one call; content is assigned anew by each call: for
\* a text file and a PDF it is what it was after one call, for an EPUB it is
\* written from all the chapters the instance holds, those of earlier calls
\* included.
C13_ReparseAppends ==
    ParsedEachTime =>
        /\ Len(chapters) = nparse * Len(AfterOneParse(file).chapters)
        /\ Len(images) = nparse * Len(AfterOneParse(file).images)
        /\ content = IF format = Some(EPUB) THEN Some(TitlesAndTexts(chapters))
                     ELSE Some(AfterOneParse(file).content)

\* the generated sample EPUB was parsed twice: ten chapters, eight images, and
\* a content that is not the one of a single parse
C13_Witness ==
    /\ ParsedEachTime
    /\ nparse = 2
    /\ file = EpubFile(sample_novel_epub)
    /\ Len(chapters) = 10
    /\ Len(images) = 8
    /\ content # Some(AfterOneParse(file).content)

----------------------------------------------------------------------------
(* The optional libraries *)

\* the library the format of the parser needs is not there
LibraryMissing ==
    \/ format = Some(EPUB) /\ ~libs.epub
    \/ format = Some(PDF) /\ ~libs.fitz

\* the ImportError of the format: its message starts with the library's name
MissingDependency ==
    [type |-> "ImportError",
     detail |-> IF format = Some(EPUB) THEN "ebooklib" ELSE "PyMuPDF"]

\* construction does not look at the libraries, and an ImportError is only
\* ever the outcome of parse() on a format whose library is missing
LazyImportError ==
    /\ (pc # "new" /\ path_exists /\ LoweredExtension(file_path) \in {EPUB, PDF}) =>
           /\ pc # "failed"
           /\ format = Some(LoweredExtension(file_path))
    /\ (raised # None /\ The(raised).type = "ImportError") =>
           /\ ret.op = "parse"
           /\ LibraryMissing
           /\ raised = Some(MissingDependency)
    /\ LibraryMissing => content = None /\ chapters = <<>> /\ images = <<>>

\* C14: with the EPUB (or PDF) library missing, construction over an .epub (or
\* .pdf) file still succeeds and detects the format; parse() for that format
\* raises the ImportError naming the library and leaves content, chapters and
\* images as they were; parse() of any other file never raises it.
C14_ImportErrorOnlyOnParse ==
    /\ []LazyImportError
    /\ [][nparse' = nparse + 1 =>
              IF LibraryMissing
              THEN /\ raised' = Some(MissingDependency)
                   /\ UNCHANGED <<content, chapters, images, format, pc>>
              ELSE raised' = None]_vars

\* a parser was built over a PDF without the PDF library, and its parse()
\* raised and left the instance empty
C14_Witness ==
    /\ format = Some(PDF) /\ ~libs.fitz
    /\ pc = "ready" /\ nparse = 1
    /\ raised = Some(ImportError("PyMuPDF"))
    /\ content = None /\ chapters = <<>>

----------------------------------------------------------------------------
(* ImageData.name, read off an instance whose fields are assigned at will *)

MaxImageField == 12

\* str(n) of an int, as an f-string writes it
py_str(n) == IF n < 0 THEN <<"-">> \o str_int(0 - n) ELSE str_int(n)

\* the name that drops the sign of chapter_num
name_without_sign(img) ==
    <<"c", "h">> \o str_int(IF img.chapter_num < 0 THEN 0 - img.chapter_num
                            ELSE img.chapter_num)
        \o <<"_", "i", "m", "g">> \o py_str(img.image_num)

\* ImageData.name
name(img) ==
    <<"c", "h">> \o py_str(img.chapter_num) \o <<"_", "i", "m", "g">> \o py_str(img.image_num)

ImageFieldValues == (0 - MaxImageField)..MaxImageField
ImageBytes == {1, 2}
ImageTypes == {ImagePng, <<"i", "m", "a", "g", "e", "/", "j", "p", "e", "g">>}
ImageInstances ==
    {ImageData(c, n, b64encode(raw), mime) :
        c \in ImageFieldValues, n \in ImageFieldValues, raw \in ImageBytes,
        mime \in ImageTypes}

\* an ImageData instance stands in fn_args, the name last read in fn_ret
InitImage ==
    /\ NoParser
    /\ NoProcess
    /\ pc = "ImageData"
    /\ fn_args \in ImageInstances
    /\ fn_ret = None

\* img.chapter_num = c, img.image_num = n, img.data = ..., img.mime_type = ...
image_assign ==
    /\ pc = "ImageData"
    /\ \/ \E c \in ImageFieldValues : fn_args' = [fn_args EXCEPT !.chapter_num = c]
       \/ \E n \in ImageFieldValues : fn_args' = [fn_args EXCEPT !.image_num = n]
       \/ \E raw \in ImageBytes : fn_args' = [fn_args EXCEPT !.data = b64encode(raw)]
       \/ \E mime \in ImageTypes : fn_args' = [fn_args EXCEPT !.mime_type = mime]
    /\ fn_ret' = None
    /\ UNCHANGED <<procVars, fileVars, parserVars, pdfVars, pc, raised, ret, nparse>>

\* img.name
image_name ==
    /\ pc = "ImageData"
    /\ fn_ret' = Some(name(fn_args))
    /\ UNCHANGED <<procVars, fileVars, parserVars, pdfVars, fn_args, pc, raised, ret, nparse>>

NextImage == image_assign \/ image_name

SpecImage == InitImage /\ [][NextImage]_vars

\* s is how n is written in decimal: a minus sign exactly when n is negative,
\* then the digits of its size with no leading zero
WritesInt(s, n) ==
    /\ s # <<>>
    /\ (s[1] = "-") <=> (n < 0)
    /\ LET digits == IF n < 0 THEN Tail(s) ELSE s
       IN  /\ digits # <<>>
           /\ \A i \in 1..Len(digits) : digits[i] \in DigitSet
           /\ Len(digits) > 1 => digits[1] # "0"
           /\ DecimalValue(digits) = (IF n < 0 THEN 0 - n ELSE n)

\* s is "ch", chapter_num, "_img", image_num
IsNameOf(s, c, n) ==
    \E cut \in 3..Len(s) :
        /\ SubSeq(s, 1, 2) = <<"c", "h">>
        /\ WritesInt(SubSeq(s, 3, cut), c)
        /\ SubSeq(s, cut + 1, cut + 4) = <<"_", "i", "m", "g">>
        /\ WritesInt(SubSeq(s, cut + 5, Len(s)), n)

\* C15: the name read off an ImageData is "ch", the decimal chapter_num - with
\* a minus sign when it is negative -, "_img", the decimal image_num, for the
\* fields as they are when it is read; chapter_num -1 and image_num 1 give
\* "ch-1_img1", whatever data and mime_type are.
C15_NameFromTheTwoFields ==
    (pc = "ImageData" /\ fn_ret # None) =>
        /\ IsNameOf(The(fn_ret), fn_args.chapter_num, fn_args.image_num)
        /\ (fn_args.chapter_num = -1 /\ fn_args.image_num = 1) =>
               fn_ret = Some(<<"c", "h", "-", "1", "_", "i", "m", "g", "1">>)

\* the name of an image of an extra section was read
C15_Witness ==
    /\ pc = "ImageData"
    /\ fn_args.chapter_num = -1 /\ fn_args.image_num = 1
    /\ fn_ret = Some(<<"c", "h", "-", "1", "_", "i", "m", "g", "1">>)

----------------------------------------------------------------------------
(* src/main.py: the hello command *)

MaxKeyLen == 10

\* the check mark of "Setup verified!", one character
CheckMark == "U+2713"

World == <<"W", "o", "r", "l", "d">>
HelloNames == {World, <<"A", "l", "i", "c", "e">>, <<"B", "o", "b", " ", "R", "o", "s", "s">>, <<>>}

\* a key of which the variable holds the first k characters, k up to MaxKeyLen
LongKey == <<"s", "k", "-", "1", "2", "3", "4", "5", "6", "7", "8", "9", "0", "a", "b", "c", "d", "e", "f">>
ApiKeys == {SubSeq(LongKey, 1, k) : k \in 0..MaxKeyLen}

\* the parser is not in play while a script runs
NoHelper == fn_args = <<>> /\ fn_ret = None

\* the command line gives --name or not; GEMINI_API_KEY is unset or set, to
\* the empty string too
InitHello ==
    /\ NoParser
    /\ NoHelper
    /\ pc = "hello"
    /\ argv \in {None} \cup {Some(n) : n \in HelloNames}
    /\ environ \in {[GEMINI_API_KEY |-> None]}
                     \cup {[GEMINI_API_KEY |-> Some(k)] : k \in ApiKeys}
    /\ config = None
    /\ stdout = <<>>
    /\ test_files = {}
    /\ exit_code = None

\* the name option, "World" when it is not given
hello_name == IF IsNone(argv) THEN World ELSE The(argv)

\* s[:n] of Python: the first n characters, all of s when it has fewer
first_chars(s, n) == SubSeq(s, 1, IF Len(s) < n THEN Len(s) ELSE n)

\* the key line that is printed for any key the variable is set to
hello_key_line_for_any_set_key(api_key) ==
    IF ~IsNone(api_key)
    THEN <<"G", "e", "m", "i", "n", "i", " ", "A", "P", "I", " ", "K", "e", "y", " ", "l", "o", "a", "d", "e", "d", ":", " ">> \o first_chars(The(api_key), 8) \o <<".", ".", ".">>
    ELSE <<"N", "o", " ", "G", "e", "m", "i", "n", "i", " ", "A", "P", "I", " ", "k", "e", "y", " ", "f", "o", "u", "n", "d", " ", "i", "n", " ", ".", "e", "n", "v", " ", "f", "i", "l", "e">>

\* the key line: if config.api_key: ... else: ...
hello_key_line(api_key) ==
    IF ~IsNone(api_key) /\ The(api_key) # <<>>
    THEN <<"G", "e", "m", "i", "n", "i", " ", "A", "P", "I", " ", "K", "e", "y", " ", "l", "o", "a", "d", "e", "d", ":", " ">> \o first_chars(The(api_key), 8) \o <<".", ".", ".">>
    ELSE <<"N", "o", " ", "G", "e", "m", "i", "n", "i", " ", "A", "P", "I", " ", "k", "e", "y", " ", "f", "o", "u", "n", "d", " ", "i", "n", " ", ".", "e", "n", "v", " ", "f", "i", "l", "e">>

hello_steps(here, next) ==
    /\ pc = here
    /\ pc' = next
    /\ UNCHANGED <<fileVars, parserVars, pdfVars, fnVars, raised, ret, nparse,
                   argv, environ, test_files>>

\* api_key = os.getenv("GEMINI_API_KEY"); config = AppConfig(api_key=api_key)
hello_config ==
    /\ hello_steps("hello", "hello_greet")
    /\ config' = Some([api_key |-> environ.GEMINI_API_KEY])
    /\ UNCHANGED <<stdout, exit_code>>

\* typer.echo(f"Hello {name}!")
hello_greet ==
    /\ hello_steps("hello_greet", "hello_verified")
    /\ stdout' = Append(stdout, <<"H", "e", "l", "l", "o", " ">> \o hello_name \o <<"!">>)
    /\ UNCHANGED <<config, exit_code>>

\* typer.echo("Setup verified! ...")
hello_verified ==
    /\ hello_steps("hello_verified", "hello_key")
    /\ stdout' = Append(stdout, <<"S", "e", "t", "u", "p", " ", "v", "e", "r", "i", "f", "i", "e", "d", "!", " ">> \o <<CheckMark>>)
    /\ UNCHANGED <<config, exit_code>>

\* the if/else on config.api_key
hello_key ==
    /\ hello_steps("hello_key", "hello_return")
    /\ stdout' = Append(stdout, hello_key_line(The(config).api_key))
    /\ UNCHANGED <<config, exit_code>>

\* the command returns and the app exits
hello_return ==
    /\ hello_steps("hello_return", "exited")
    /\ exit_code' = Some(0)
    /\ UNCHANGED <<config, stdout>>

NextHello ==
    \/ hello_config
    \/ hello_greet
    \/ hello_verified
    \/ hello_key
    \/ hello_return

\* the command runs on as long as it has a statement left
SpecHello == InitHello /\ [][NextHello]_vars /\ WF_vars(NextHello)

\* the hello command has exited
HelloExited == pc = "exited" /\ exit_code # None

NoKeyNotice == <<"N", "o", " ", "G", "e", "m", "i", "n", "i", " ", "A", "P", "I", " ", "k", "e", "y", " ", "f", "o", "u", "n", "d", " ", "i", "n", " ", ".", "e", "n", "v", " ", "f", "i", "l", "e">>

\* the line ends with the first 8 characters of the key and an ellipsis
EndsWithKeyStart(line, key) ==
    LET shown == SubSeq(key, 1, IF Len(key) < 8 THEN Len(key) ELSE 8) \o <<".", ".", ".">>
    IN  /\ Len(line) >= Len(shown)
        /\ SubSeq(line, Len(line) - Len(shown) + 1, Len(line)) = shown

\* the greeting and the line after it
GreetingLines ==
    <<<<"H", "e", "l", "l", "o", " ">> \o (IF argv = None THEN <<"W", "o", "r", "l", "d">> ELSE The(argv)) \o <<"!">>,
      <<"S", "e", "t", "u", "p", " ", "v", "e", "r", "i", "f", "i", "e", "d", "!", " ">> \o <<CheckMark>>>>

\* C16 as stated: the command prints "Hello {name}!", "Setup verified!" and
\* one key line, which shows the first 8 characters of the key and an ellipsis
\* if the variable is set and is the no-key notice if it is unset, and exits
\* with status 0.
C16_AsStated ==
    HelloExited =>
        /\ exit_code = Some(0)
        /\ Len(stdout) = 3
        /\ SubSeq(stdout, 1, 2) = GreetingLines
        /\ IF environ.GEMINI_API_KEY # None
           THEN EndsWithKeyStart(stdout[3], The(environ.GEMINI_API_KEY))
           ELSE stdout[3] = NoKeyNotice

\* the three lines of a run, the key line deciding on a key that is set and
\* not empty
HelloLines ==
    GreetingLines \o
        <<IF environ.GEMINI_API_KEY # None /\ The(environ.GEMINI_API_KEY) # <<>>
          THEN <<"G", "e", "m", "i", "n", "i", " ", "A", "P", "I", " ", "K", "e", "y", " ", "l", "o", "a", "d", "e", "d", ":", " ">>
                 \o SubSeq(The(environ.GEMINI_API_KEY), 1,
                           IF Len(The(environ.GEMINI_API_KEY)) < 8
                           THEN Len(The(environ.GEMINI_API_KEY)) ELSE 8)
                 \o <<".", ".", ".">>
          ELSE NoKeyNotice>>

\* what is printed so far is the start of the three lines, all of them once
\* the command has exited, and the status is 0
HelloPrintsInOrder ==
    /\ Len(stdout) <= 3
    /\ stdout = SubSeq(HelloLines, 1, Len(stdout))
    /\ exit_code # None => exit_code = Some(0) /\ stdout = HelloLines

\* C16: for every name (default "World") and every state of GEMINI_API_KEY the
\* hello command prints, in this order, "Hello {name}!", "Setup verified!" with
\* its check mark, and one key line: "Gemini API Key loaded: ", the first 8
\* characters of the key and an ellipsis if the variable is set to a non-empty
\* value, the no-key notice if it is unset or empty; and it ends up exiting
\* with status 0.
C16_HelloPrintsAndExits ==
    /\ []HelloPrintsInOrder
    /\ <>(exit_code = Some(0))

\* the command ran with the default name and the variable set to the empty
\* string, and printed the no-key notice
C16_Witness ==
    /\ HelloExited
    /\ argv = None
    /\ environ.GEMINI_API_KEY = Some(<<>>)
    /\ stdout[1] = <<"H", "e", "l", "l", "o", " ", "W", "o", "r", "l", "d", "!">>
    /\ stdout[3] = NoKeyNotice

----------------------------------------------------------------------------
(* src/scripts/generate_test_files.py: main() *)

CrossMark == "U+2717"

EpubPath == <<"t", "e", "s", "t", "_", "f", "i", "l", "e", "s", "/", "s", "a", "m", "p", "l", "e", "_", "n", "o", "v", "e", "l", ".", "e", "p", "u", "b">>
PdfPath == <<"t", "e", "s", "t", "_", "f", "i", "l", "e", "s", "/", "s", "a", "m", "p", "l", "e", "_", "n", "o", "v", "e", "l", ".", "p", "d", "f">>

\* what str(e) of an exception out of a generation step can be
FaultMessages == {<<"P", "e", "r", "m", "i", "s", "s", "i", "o", "n", " ", "d", "e", "n", "i", "e", "d">>, <<"N", "o", " ", "s", "p", "a", "c", "e", " ", "l", "e", "f", "t", " ", "o", "n", " ", "d", "e", "v", "i", "c", "e">>, <<>>}

\* ebooklib imported or not; each generation step runs through or raises
InitGenerate ==
    /\ NoParser
    /\ NoHelper
    /\ pc = "main"
    /\ argv = <<>>
    /\ environ \in [epub : BOOLEAN,
                    epub_fault : {None} \cup {Some(e) : e \in FaultMessages},
                    pdf_fault : {None} \cup {Some(e) : e \in FaultMessages}]
    /\ config = None
    /\ stdout = <<>>
    /\ test_files = {}
    /\ exit_code = None

main_steps(here, next) ==
    /\ pc = here
    /\ pc' = next
    /\ UNCHANGED <<fileVars, parserVars, pdfVars, fnVars, raised, ret, nparse,
                   argv, environ, config>>

\* print("Generating sample test files..."); print()
main_begin ==
    /\ main_steps("main", "main_epub")
    /\ stdout' = stdout \o <<<<"G", "e", "n", "e", "r", "a", "t", "i", "n", "g", " ", "s", "a", "m", "p", "l", "e", " ", "t", "e", "s", "t", " ", "f", "i", "l", "e", "s", ".", ".", ".">>, <<>>>>
    /\ UNCHANGED <<test_files, exit_code>>

\* try: generate_epub()  except Exception as e: print(...)
main_epub ==
    /\ main_steps("main_epub", "main_pdf")
    /\ IF ~environ.epub
       THEN /\ stdout' = Append(stdout, <<"E", "r", "r", "o", "r", ":", " ", "e", "b", "o", "o", "k", "l", "i", "b", " ", "n", "o", "t", " ", "i", "n", "s", "t", "a", "l", "l", "e", "d", ".", " ", "I", "n", "s", "t", "a", "l", "l", " ", "w", "i", "t", "h", ":", " ", "p", "i", "p", " ", "i", "n", "s", "t", "a", "l", "l", " ", "e", "b", "o", "o", "k", "l", "i", "b">>)
            /\ UNCHANGED test_files
       ELSE IF environ.epub_fault # None
       THEN /\ stdout' = Append(stdout, <<CrossMark>> \o <<" ", "E", "r", "r", "o", "r", " ", "g", "e", "n", "e", "r", "a", "t", "i", "n", "g", " ", "E", "P", "U", "B", ":", " ">> \o The(environ.epub_fault))
            /\ UNCHANGED test_files
       ELSE /\ stdout' = Append(stdout, <<CheckMark>> \o <<" ", "C", "r", "e", "a", "t", "e", "d", " ", "E", "P", "U", "B", " ", "f", "i", "l", "e", ":", " ">> \o EpubPath)
            /\ test_files' = test_files \cup {EpubPath}
    /\ UNCHANGED exit_code

\* the PDF step of a driver that lets an exception of the EPUB step through
main_pdf_after_epub_only ==
    /\ main_steps("main_pdf", "main_done")
    /\ IF environ.epub /\ environ.epub_fault # None
       THEN UNCHANGED <<stdout, test_files>>
       ELSE IF environ.pdf_fault # None
       THEN /\ stdout' = Append(stdout, <<CrossMark>> \o <<" ", "E", "r", "r", "o", "r", " ", "g", "e", "n", "e", "r", "a", "t", "i", "n", "g", " ", "P", "D", "F", ":", " ">> \o The(environ.pdf_fault))
            /\ UNCHANGED test_files
       ELSE /\ stdout' = Append(stdout, <<CheckMark>> \o <<" ", "C", "r", "e", "a", "t", "e", "d", " ", "P", "D", "F", " ", "f", "i", "l", "e", ":", " ">> \o PdfPath)
            /\ test_files' = test_files \cup {PdfPath}
    /\ UNCHANGED exit_code

\* try: generate_pdf()  except Exception as e: print(...)
main_pdf ==
    /\ main_steps("main_pdf", "main_done")
    /\ IF environ.pdf_fault # None
       THEN /\ stdout' = Append(stdout, <<CrossMark>> \o <<" ", "E", "r", "r", "o", "r", " ", "g", "e", "n", "e", "r", "a", "t", "i", "n", "g", " ", "P", "D", "F", ":", " ">> \o The(environ.pdf_fault))
            /\ UNCHANGED test_files
       ELSE /\ stdout' = Append(stdout, <<CheckMark>> \o <<" ", "C", "r", "e", "a", "t", "e", "d", " ", "P", "D", "F", " ", "f", "i", "l", "e", ":", " ">> \o PdfPath)
            /\ test_files' = test_files \cup {PdfPath}
    /\ UNCHANGED exit_code

\* print(); print("Done! ..."), and main() returns
main_done ==
    /\ main_steps("main_done", "exited")
    /\ stdout' = stdout \o <<<<>>, <<"D", "o", "n", "e", "!", " ", "F", "i", "l", "e", "s", " ", "c", "r", "e", "a", "t", "e", "d", " ", "i", "n", " ", "'", "t", "e", "s", "t", "_", "f", "i", "l", "e", "s", "/", "'", " ", "d", "i", "r", "e", "c", "t", "o", "r", "y">>>>
    /\ exit_code' = Some(0)
    /\ UNCHANGED test_files

NextGenerate ==
    \/ main_begin
    \/ main_epub
    \/ main_pdf
    \/ main_done

\* the driver runs on as long as it has a statement left
SpecGenerate == InitGenerate /\ [][NextGenerate]_vars /\ WF_vars(NextGenerate)

\* the generation step raised: EPUB generation can only raise with its library
EpubRaised == environ.epub /\ environ.epub_fault # None
PdfRaised == environ.pdf_fault # None

\* the console line that reports the exception of a step, its message included
ReportOf(step, fault) ==
    <<CrossMark>> \o <<" ", "E", "r", "r", "o", "r", " ", "g", "e", "n", "e", "r", "a", "t", "i", "n", "g", " ">> \o step \o <<":", " ">> \o The(fault)

\* the EPUB step comes first and the PDF step after it whatever it did: past
\* the EPUB step its exception is on the console, past the PDF step the PDF is
\* written or its exception is on the console, no PDF is written before that,
\* and the driver ends with status 0 only
DriverStepsInOrder ==
    /\ pc \in {"main_pdf", "main_done", "exited"} =>
           /\ Len(stdout) >= 3
           /\ EpubRaised => stdout[3] = ReportOf(<<"E", "P", "U", "B">>, environ.epub_fault)
           /\ EpubPath \in test_files <=> (environ.epub /\ ~EpubRaised)
    /\ pc \in {"main_done", "exited"} =>
           /\ Len(stdout) >= 4
           /\ PdfRaised => stdout[4] = ReportOf(<<"P", "D", "F">>, environ.pdf_fault)
           /\ PdfPath \in test_files <=> ~PdfRaised
    /\ pc \in {"main", "main_epub"} => test_files = {}
    /\ pc = "main_pdf" => PdfPath \notin test_files
    /\ exit_code # None => pc = "exited" /\ exit_code = Some(0)

\* C17: the driver attempts EPUB generation and then PDF generation, each on
\* its own: an exception of the EPUB step is reported on the console and the
\* PDF step is attempted all the same, and the driver always ends normally,
\* whatever the two steps did.
C17_DriverAttemptsBoth ==
    /\ []DriverStepsInOrder
    /\ <>(pc = "exited" /\ exit_code = Some(0))

\* EPUB generation raised, the PDF was written all the same, and the driver
\* ended normally
C17_Witness ==
    /\ pc = "exited" /\ exit_code = Some(0)
    /\ EpubRaised
    /\ stdout[3] = ReportOf(<<"E", "P", "U", "B">>, environ.epub_fault)
    /\ test_files = {PdfPath}

----------------------------------------------------------------------------
(* PDF: the close-out at the end of the document *)

\* the page loop of _parse_pdf is through, over at least one page
PagesRead == pc = "pdf_loop" /\ page_num = Len(file.pages) /\ page_num >= 1

\* C18 as stated: whenever at least one page was read, a non-empty buffer
\* remains after the page loop, from which the final chapter is appended.
C18_AsStated == PagesRead => current_chapter_text # <<>>

\* after the loop the buffer holds the pages after the last boundary page: it
\* is empty exactly when the last page holds a boundary marker, and then that
\* page has closed a chapter out
BufferAfterLoop ==
    PagesRead =>
        /\ current_chapter_text = <<>> <=> page_num \in BoundaryPages(file.pages)
        /\ current_chapter_text = <<>> => chapters # <<>>

\* C18: when at least one page was read, the parse leaves at least one chapter;
\* the close-out at the end of the document appends a final chapter exactly
\* when the buffer is not empty after the page loop, which is when the last
\* page holds no boundary marker, and appends nothing otherwise.
C18_CloseOutOnlyWithBuffer ==
    /\ []BufferAfterLoop
    /\ [][(PagesRead /\ pc' = "ready") =>
              /\ chapters' # <<>>
              /\ Len(chapters') = Len(chapters)
                     + (IF page_num \in BoundaryPages(file.pages) THEN 0 ELSE 1)]_vars

\* a PDF whose last page holds a boundary marker was parsed: every chapter
\* was closed by a boundary page, none at the end of the document
C18_Witness ==
    /\ FirstPdfParseDone
    /\ Len(file.pages) = 2
    /\ BoundaryPages(file.pages) = {2}
    /\ Len(chapters) = 1

----------------------------------------------------------------------------
(* The title-based number detector: which rule wins *)

\* the rules a title falls under, each whatever the others say
ByPrologueWord(t) == HoldsPrologueWord(t) \/ TitleHolds(t, <<"p", "r", "o", "l", "o", "g">>)
ByExtraWord(t) == HoldsExtraWord(t)
ByToken(t) == TokenNumbers(t) # {}
ByStandalone(t) == StandaloneNumbers(t) # {}

\* C19: the rules of the detector apply in strict priority: a prologue word
\* wins over an extra word, which wins over a chapter token with its number,
\* which wins over a number standing alone, which wins over the default; so
\* "Prologue" with "Chapter 5" gives 0 and a number standing alone is returned
\* instead of the default.
C19_DetectorPriority ==
    Detected =>
        /\ ByPrologueWord(fn_args.title) => The(fn_ret) = 0
        /\ (ByExtraWord(fn_args.title) /\ ~ByPrologueWord(fn_args.title)) => The(fn_ret) = -1
        /\ (/\ ByToken(fn_args.title)
            /\ ~ByPrologueWord(fn_args.title) /\ ~ByExtraWord(fn_args.title)) =>
               The(fn_ret) = Leftmost(TokenNumbers(fn_args.title))
        /\ (/\ ByStandalone(fn_args.title) /\ ~ByToken(fn_args.title)
            /\ ~ByPrologueWord(fn_args.title) /\ ~ByExtraWord(fn_args.title)) =>
               The(fn_ret) = Leftmost(StandaloneNumbers(fn_args.title))
        /\ (/\ ~ByStandalone(fn_args.title) /\ ~ByToken(fn_args.title)
            /\ ~ByPrologueWord(fn_args.title) /\ ~ByExtraWord(fn_args.title)) =>
               The(fn_ret) = fn_args.default

\* a title with "Prologue" and "Chapter 5" gave 0
C19_Witness ==
    /\ Detected
    /\ fn_args.title = <<"P", "r", "o", "l", "o", "g", "u", "e", " ", "C", "h", "a", "p", "t", "e", "r", " ", "5">>
    /\ ByPrologueWord(fn_args.title) /\ ByToken(fn_args.title)
    /\ fn_ret = Some(0)

----------------------------------------------------------------------------
(* The parser's images and the chapters' images *)

\* the first parse() of a fresh instance has returned without raising
FirstParseDone ==
    /\ pc = "ready" /\ nparse = 1
    /\ \/ format = Some(TXT)
       \/ format = Some(EPUB) /\ libs.epub
       \/ format = Some(PDF) /\ libs.fitz

\* the places of the chapters' image lists: chapter k, image i
ImagePlaces ==
    UNION {{<<k, i>> : i \in 1..Len(chapters[k].images)} : k \in 1..Len(chapters)}

\* C20: after the first parse() of a fresh instance every image of the
\* parser's list is held by exactly one chapter, at exactly one place, and
\* every image of a chapter is in the parser's list; an EPUB gives as many
\* images as it has references that resolve, one that resolves to nothing
\* gives none; a text file gives none at all.
C20_ImageListsAgree ==
    FirstParseDone =>
        /\ Len(images) = Cardinality(ImagePlaces)
        /\ \A j \in 1..Len(images) :
               Cardinality({p \in ImagePlaces :
                               chapters[p[1]].images[p[2]] = images[j]}) = 1
        /\ \A p \in ImagePlaces :
               \E j \in 1..Len(images) : images[j] = chapters[p[1]].images[p[2]]
        /\ format = Some(EPUB) =>
               Len(images) = Cardinality(ResolvableReferences(file.items))
        /\ format = Some(TXT) => images = <<>>

\* a PDF was parsed whose boundary page and whose last page both carry
\* images: each of the two chapters holds its own, the parser holds all
C20_Witness ==
    /\ FirstParseDone
    /\ format = Some(PDF)
    /\ Len(chapters) = 2
    /\ chapters[1].images # <<>>
    /\ chapters[2].images # <<>>
    /\ Len(images) = Len(chapters[1].images) + Len(chapters[2].images)

----------------------------------------------------------------------------
(* The per-chapter image counter *)

\* the images among the given ones that carry chapter_num c, in their order
Carrying(imgs, c) ==
    LET Carries(img) == img.chapter_num = c
    IN  SelectSeq(imgs, Carries)

\* for every chapter_num the images carrying it are numbered 1, 2, ..., k in
\* the order they stand in
CountedUp(imgs) ==
    \A c \in {imgs[i].chapter_num : i \in 1..Len(imgs)} :
        \A j \in 1..Len(Carrying(imgs, c)) : Carrying(imgs, c)[j].image_num = j

\* no two of the given images have the same name
DistinctNames(imgs) ==
    \A i, j \in 1..Len(imgs) : i # j => name(imgs[i]) # name(imgs[j])

\* the first parse() of a fresh EPUB or PDF instance is running or has returned
WithinFirstParse ==
    /\ nparse = 1
    /\ format \in {Some(EPUB), Some(PDF)}

\* the second parse() of an EPUB or PDF instance has returned, neither raised
SecondParseDone ==
    /\ ParsedEachTime /\ nparse = 2
    /\ format \in {Some(EPUB), Some(PDF)}

\* C21: during and after the first parse() of a fresh EPUB or PDF instance
\* the images of each chapter_num are numbered 1, 2, ..., k in the order they
\* were met, so all names in the parser's list differ; a second parse() counts
\* from 1 again: it appends images with the chapter_num, image_num and name of
\* those of the first, so every name the first parse gave is there twice.
C21_CounterRunsPerChapterAndParse ==
    /\ WithinFirstParse => CountedUp(images) /\ DistinctNames(images)
    /\ SecondParseDone =>
           LET n == Len(AfterOneParse(file).images)
           IN  /\ Len(images) = 2 * n
               /\ CountedUp(SubSeq(images, 1, n))
               /\ CountedUp(SubSeq(images, n + 1, 2 * n))
               /\ \A j \in 1..n :
                      /\ images[n + j].chapter_num = images[j].chapter_num
                      /\ images[n + j].image_num = images[j].image_num
                      /\ name(images[n + j]) = name(images[j])
               /\ n >= 1 => ~DistinctNames(images)

\* a PDF whose first chapter took images from two pages and whose second
\* chapter took one was parsed twice: the first parse numbered 1, 2, 3 and 1,
\* the second gave the same four names again
C21_Witness ==
    /\ SecondParseDone
    /\ format = Some(PDF)
    /\ Len(images) = 8
    /\ [j \in 1..4 |-> <<images[j].chapter_num, images[j].image_num>>]
           = <<(<<1, 1>>), (<<1, 2>>), (<<1, 3>>), (<<2, 1>>)>>
    /\ DistinctNames(SubSeq(images, 1, 4))
    /\ name(images[5]) = name(images[1])
    /\ ~DistinctNames(images)

====
